---- MODULE Spec2Model ----
(***************************************************************************)
(* A model of the IMAP side of xmit-smtp-proxy: one IMAP session (the       *)
(* per-connection closure of createImapServer), the command dispatcher      *)
(* (handleCommand / validateState / handlers) and the upstream adapter as   *)
(* the handlers see it.                                                     *)
(*                                                                          *)
(* Execution model.  socket.on("data", async ...) starts one invocation of  *)
(* the listener per data event.  JavaScript runs an invocation until it     *)
(* reaches an await on an upstream HTTP call; there the event loop is free  *)
(* to deliver the next data event or to resume another invocation.  `cur`   *)
(* is the invocation that holds the JavaScript thread (0: the event loop).  *)
(* An upstream request takes effect upstream when it is issued; its result  *)
(* is delivered when the invocation is resumed.  A read that is served from *)
(* the process-wide cache does not yield to the event loop.                 *)
(***************************************************************************)
EXTENDS Integers, Sequences, FiniteSets, TLC

\* ------------------------------------------------------------------ bounds
MaxUids == 3      \* the folder holds the UIDs 10, 20, .., 10 * MaxUids
MaxInv  == 1      \* data-event invocations that may be active at once
MaxChunk == 1     \* framed lines per data event
MaxTimers == 1    \* idle timers that may be pending at once

UIDs == {10 * k : k \in 1..MaxUids}
Invs == 1..MaxInv
Objs == 1..(MaxInv + 2)      \* enough identities for every reference held at once

\* ------------------------------------------------------------- text values
\* A string the code inspects by prefix or by "/" is a tuple of its pieces.
API_KEY_PREFIXES == {"pm_live_", "pm_test_"}
GoodKey == <<"pm_live_", "ok">>       \* a key the upstream accepts
BadKey  == <<"pm_test_", "revoked">>  \* well-formed, rejected upstream
RawPass == <<"hunter2", "">>          \* not an API key at all
NoKey   == <<"", "">>                 \* session.apiKey === undefined / ""
Passwords == {GoodKey, BadKey, RawPass, NoKey}

isValidApiKeyFormat(apiKey) == \E prefix \in API_KEY_PREFIXES : apiKey[1] = prefix

\* The upstream: one workspace, one sender, its folders.
TheSender == "s1"
TheEmail  == "a@x"
NoSender  == "none"
Inbox == <<"Inbox">>
Trash == <<"Trash">>
UpFolders == {Inbox, Trash}

\* A mailbox name is the tuple of its "/"-separated segments.
FOLDER_ALIASES(name) ==
    CASE name = <<"Sent Messages">>       -> <<"Sent">>
      [] name = <<"Deleted Messages">>    -> <<"Trash">>
      [] name = <<"Deleted Items">>       -> <<"Trash">>
      [] name = <<"Junk E-mail">>         -> <<"Junk">>
      [] name = <<"[Gmail]", "Sent Mail">> -> <<"Sent">>
      [] name = <<"[Gmail]", "Trash">>    -> <<"Trash">>
      [] name = <<"[Gmail]", "Drafts">>   -> <<"Drafts">>
      [] OTHER -> <<>>

normalizeFolderName(name) ==
    IF FOLDER_ALIASES(name) # <<>> THEN FOLDER_ALIASES(name) ELSE name

NoName == <<>>    \* an argument that is absent (undefined)

\* --------------------------------------------------------- sequence sets
Star == -1
Num(n)       == [kind |-> "num", lo |-> n, hi |-> n]
Range(a, b)  == [kind |-> "range", lo |-> a, hi |-> b]
StarPart     == [kind |-> "star", lo |-> Star, hi |-> Star]

RECURSIVE SortAsc(_)
SortAsc(S) ==
    IF S = {} THEN <<>>
    ELSE LET m == CHOOSE x \in S : \A y \in S : x <= y
         IN <<m>> \o SortAsc(S \ {m})

RECURSIVE SortDesc(_)
SortDesc(S) ==
    IF S = {} THEN <<>>
    ELSE LET m == CHOOSE x \in S : \A y \in S : x >= y
         IN <<m>> \o SortDesc(S \ {m})

Range1(q) == {q[i] : i \in 1..Len(q)}

IndexOf(q, x) ==            \* Array.prototype.indexOf, 0-based, -1 if absent
    IF \E i \in 1..Len(q) : q[i] = x
    THEN (CHOOSE i \in 1..Len(q) : q[i] = x /\ \A j \in 1..(i - 1) : q[j] # x) - 1
    ELSE -1

Splice(q, idx) ==           \* q.splice(idx, 1), idx 0-based
    [i \in 1..(Len(q) - 1) |-> IF i <= idx THEN q[i] ELSE q[i + 1]]

PartUids(part, uids) ==
    LET last == uids[Len(uids)]
    IN CASE part.kind = "star" -> {last}
         [] part.kind = "range" ->
              LET s0 == IF part.lo = Star THEN last ELSE part.lo
                  e0 == IF part.hi = Star THEN last ELSE part.hi
                  start == IF s0 > e0 THEN e0 ELSE s0
                  end   == IF s0 > e0 THEN s0 ELSE e0
              IN {u \in Range1(uids) : u >= start /\ u <= end}
         [] OTHER -> IF part.lo \in Range1(uids) THEN {part.lo} ELSE {}

parseSequenceSet(set, uids) ==
    IF Len(uids) = 0 THEN <<>>
    ELSE SortAsc(UNION {PartUids(set[i], uids) : i \in 1..Len(set)})

\* The handlers' "Resolve UIDs" expression.
ResolveUids(useUid, set, messageUids) ==
    IF useUid THEN parseSequenceSet(set, messageUids)
    ELSE LET seqs == parseSequenceSet(set, [i \in 1..Len(messageUids) |-> i])
         IN [i \in 1..Len(seqs) |-> messageUids[seqs[i]]]

\* ---------------------------------------------------------------- commands
\* A framed line after parseCommand.  Absent arguments are "" / NoName / <<>>.
\* raw: "cmd" a line parseCommand accepts, "done" the line DONE, "garbage" a
\* line with fewer than two tokens (parseCommand throws).
\* Tags are numbers; 0 is no tag.  The client tags a command with the least
\* tag that no command still in progress carries.
NoTag == 0
Tags == 1..(MaxChunk + MaxInv + 2)

BaseCmd == [raw |-> "cmd", tag |-> NoTag, name |-> "NOOP", useUid |-> FALSE,
            user |-> "", pass |-> NoKey, mech |-> "", mbox |-> NoName,
            set |-> <<>>, items |-> "", action |-> "", pattern |-> "",
            literal |-> FALSE, literalData |-> <<>>]

C0(name) == [BaseCmd EXCEPT !.name = name]
CMbox(name, mbox) == [BaseCmd EXCEPT !.name = name, !.mbox = mbox]
CLogin(user, pass) == [BaseCmd EXCEPT !.name = "LOGIN", !.user = user, !.pass = pass]
CAuth(mech, user, pass) ==
    [BaseCmd EXCEPT !.name = "AUTHENTICATE", !.mech = mech, !.user = user, !.pass = pass]
CFetch(uid, set, items) ==
    [BaseCmd EXCEPT !.name = "FETCH", !.useUid = uid, !.set = set, !.items = items]
CStore(uid, set, action) ==
    [BaseCmd EXCEPT !.name = "STORE", !.useUid = uid, !.set = set, !.action = action]
CXfer(name, uid, set, mbox) ==
    [BaseCmd EXCEPT !.name = name, !.useUid = uid, !.set = set, !.mbox = mbox]
CList(name, pattern) == [BaseCmd EXCEPT !.name = name, !.pattern = pattern]  \* "": no pattern
\* A message is its lines: <<key, value>> a header line, <<>> the empty line,
\* <<text>> a line of text.  Joined with CRLF they are the literal's bytes.
HeaderLine(key, value) == <<key, value>>
PlainType == "text/plain; charset=utf-8"
Msg1 == <<HeaderLine("Subject", "hi"), <<>>, <<"body">>>>
Msg2 == <<HeaderLine("Content-Type", PlainType), <<>>, <<"body">>>>
Msg3 == <<HeaderLine("Content-Type", PlainType), HeaderLine("Subject", "hi"), <<>>, <<"body">>>>
Messages == {Msg1, Msg2, Msg3}

CAppendData(mbox, literalData) ==
    [BaseCmd EXCEPT !.name = "APPEND", !.mbox = mbox, !.literal = (literalData # <<>>),
                    !.literalData = literalData]
CAppend(mbox, literal) == CAppendData(mbox, IF literal THEN Msg1 ELSE <<>>)

DoneLine    == [BaseCmd EXCEPT !.raw = "done", !.name = "DONE"]
GarbageLine == [BaseCmd EXCEPT !.raw = "garbage", !.name = ""]
NoCmd       == [BaseCmd EXCEPT !.raw = "", !.name = ""]

\* The sequence sets the client uses: "1", "1:*", "10,30".
SetOne  == <<Num(1)>>
SetAll  == <<Range(1, Star)>>
SetEx   == <<Num(10), Num(30)>>
NewUid  == 10 * (MaxUids + 1)     \* the UID the upstream gives an appended message
SetNew  == <<Num(NewUid)>>
SeqSets == {SetOne, SetAll, SetEx}

AnyStateNames  == {"CAPABILITY", "NOOP", "LOGOUT"}
NotAuthNames   == {"LOGIN", "AUTHENTICATE"}
AuthNames      == {"LIST", "LSUB", "STATUS", "SELECT", "EXAMINE", "CREATE", "DELETE",
                   "SUBSCRIBE", "UNSUBSCRIBE", "APPEND", "NAMESPACE"}
SelectedNames  == {"CHECK", "CLOSE", "EXPUNGE", "SEARCH", "FETCH", "STORE", "COPY",
                   "MOVE", "IDLE"}
HandlerNames   == AnyStateNames \cup NotAuthNames \cup AuthNames \cup SelectedNames
                    \cup {"RENAME"}

\* What the client sends (the tag is put on when the line is sent).
Lines ==
    {C0(n) : n \in {"CAPABILITY", "NOOP", "LOGOUT", "CHECK", "CLOSE", "EXPUNGE",
                    "SEARCH", "IDLE", "NAMESPACE", "XYZZY"}}
    \cup {CLogin(u, GoodKey) : u \in {"api", TheEmail, "nobody@x"}}
    \cup {CLogin("api", p) : p \in {BadKey, RawPass, NoKey}}
    \cup {CAuth("PLAIN", "nobody@x", GoodKey), CAuth("PLAIN", "api", BadKey),
          CAuth("PLAIN", "api", RawPass), CAuth("PLAIN", "", NoKey),
          CAuth("LOGIN", "", NoKey)}
    \cup {CMbox("SELECT", m) : m \in {Inbox, <<TheEmail, "Inbox">>, <<"Nope">>, NoName}}
    \cup {CMbox("EXAMINE", m) : m \in {Inbox, NoName}}
    \cup {CMbox("STATUS", m) : m \in {Inbox, NoName}}
    \cup {CMbox("CREATE", m) : m \in {<<"Nope">>, NoName}}
    \cup {CMbox("DELETE", m) : m \in {Trash, NoName}}
    \cup {CMbox(n, m) : n \in {"SUBSCRIBE", "UNSUBSCRIBE", "RENAME"}, m \in {Inbox, NoName}}
    \cup {CList("LIST", "*"), CList("LIST", ""), CList("LSUB", "%")}
    \cup {CFetch(FALSE, SetOne, "FLAGS"), CFetch(TRUE, SetEx, "FLAGS"),
          CFetch(FALSE, SetAll, "BODY.PEEK[]"), CFetch(FALSE, <<>>, ""),
          CFetch(FALSE, SetOne, "(BODY[] BODY.PEEK[HEADER])")}
    \cup {CStore(FALSE, SetAll, "+FLAGS"), CStore(TRUE, SetEx, "-FLAGS.SILENT"),
          CStore(FALSE, SetOne, "+FLAGS.SILENT"), CStore(FALSE, <<>>, "")}
    \cup {CXfer("MOVE", TRUE, SetEx, Trash), CXfer("MOVE", FALSE, SetOne, Trash),
          CXfer("MOVE", FALSE, <<>>, NoName)}
    \cup {CXfer("COPY", FALSE, SetAll, Trash), CXfer("COPY", FALSE, <<>>, NoName)}
    \cup {CAppend(Trash, TRUE), CAppend(<<"Nope">>, TRUE), CAppend(Trash, FALSE),
          CAppend(NoName, FALSE)}
    \cup {DoneLine, GarbageLine}

\* --------------------------------------------------------------- responses
Tagged(tag, status, code, text) ==
    [type |-> "tagged", tag |-> tag, status |-> status, code |-> code,
     text |-> text, n |-> 0, uid |-> 0, src |-> <<>>, dst |-> <<>>, literal |-> <<>>,
     mailbox |-> <<>>]
Untagged(text, n, uid) ==
    [type |-> "untagged", tag |-> NoTag, status |-> "", code |-> "",
     text |-> text, n |-> n, uid |-> uid, src |-> <<>>, dst |-> <<>>, literal |-> <<>>,
     mailbox |-> <<>>]
Continuation(text) ==
    [type |-> "continuation", tag |-> NoTag, status |-> "", code |-> "",
     text |-> text, n |-> 0, uid |-> 0, src |-> <<>>, dst |-> <<>>, literal |-> <<>>,
     mailbox |-> <<>>]

\* ------------------------------------------------------------------ state
VARIABLES
    session,   \* the ImapSession object
    heap,      \* the selectedFolder objects (a handler keeps a reference to one)
    buffer,    \* framed lines received and not yet taken by an invocation
    inv,       \* the invocations of the data listener, with their locals
    cur,       \* the invocation running JavaScript; 0: the event loop
    up,        \* the upstream mailbox: the folder's messages and their flags
    ended,     \* socket.end() has been called
    wrote,     \* what the step just taken wrote to the socket
    ret,       \* what handleCommand returned in the step just taken
    ev         \* the step just taken: what ran, on which command, from where

\* The parts of the process the session shares or stands next to.
VARIABLES
    cache,     \* the CacheManager: memory (LruCache) and persistent (SqliteCache)
    cev,       \* the api-client call just made: what it asked, what it returned
    smtp,      \* an SMTP session of the same process, in its AUTH
    framer,    \* a connection's buffer, pendingLiteral and literal timers, in bytes
    wire,      \* the bytes its client sends, and those not yet delivered
    keys,      \* the apiKeyCache of the IMAP and of the SMTP api client, the clock
    lru,       \* an LruCache with its entries in the order of its Map
    retry      \* a call of withRetry: its options, its loop, what it has done

store == <<keys, lru, retry>>

aux == <<cache, cev, smtp, framer, wire, store>>

vars == <<session, heap, buffer, inv, cur, up, ended, wrote, ret, ev, aux>>

createSession ==
    [state |-> "not_authenticated", apiKey |-> NoKey, workspaceId |-> "",
     selectedSender |-> NoSender, selectedFolder |-> 0,
     idling |-> FALSE, idleTag |-> NoTag,
     idleTimeout |-> FALSE,    \* the timer idleTimeout refers to is pending
     timers |-> 0]             \* pending timer callbacks that hold this session

\* A selectedFolder object; `announced` is a ghost field: the message count the
\* client has been told (EXISTS of the SELECT, minus the EXPUNGEs pushed since).
DeadObj == [live |-> FALSE, name |-> NoName, readOnly |-> FALSE,
            messageUids |-> <<>>, announced |-> 0]

NoRes == [ok |-> FALSE, sender |-> NoSender, senders |-> <<>>, folders |-> {},
          exists |-> 0, unseen |-> 0, uidValidity |-> 0, msgs |-> <<>>, n |-> 0,
          body |-> [headers |-> <<>>, text |-> ""]]

FreeInv == [pc |-> "free", cmd |-> NoCmd, at |-> "", res |-> NoRes, sync |-> FALSE,
            folder |-> 0, sid |-> NoSender, fname |-> NoName, uids |-> <<>>,
            k |-> 0, msgs |-> <<>>, resp |-> <<>>, newUids |-> <<>>, exists |-> 0,
            unseen |-> 0, uidValidity |-> 0,
            peek |-> FALSE,   \* the peek argument of its getMessageBody calls
            did |-> 0,        \* ghost: the copies and moves the upstream made for it
            older |-> {}]     \* ghost: the handlers in progress when this one started

NoX == [n |-> 0, uid |-> 0, obj |-> 0, after |-> <<>>]

\* op: "init", "data", "dispatch", "resume", "return", "done", "parse", "timer".
\* state0: session.state before the step.  call, key: the upstream request the
\* step issued.  x: the EXPUNGE the step pushed (position, UID, folder object,
\* messageUids after the splice).  older: the handlers that were dispatched
\* before the step's command and have not completed.
NoEv == [op |-> "init", inv |-> 0, cmd |-> NoCmd, k |-> "", state0 |-> "",
         call |-> "", key |-> NoKey, err |-> "", x |-> NoX, older |-> {}, did |-> 0,
         peek |-> FALSE]

\* ------------------------------------------------------- upstream adapter
\* o is how the call goes: "hit" (a cached read: no request is sent), "ok" and
\* "okdesc" (the request is sent and answered, the listing in ascending or in
\* descending UID order), "fail" (timeout, network error, 5xx).  The cache is
\* shared by all sessions of the process and its keys do not hold the API key,
\* so a hit is possible for any session.  The upstream refuses any request
\* that does not carry a key it accepts.
Outcomes == {"hit", "ok", "okdesc", "fail"}

Accepted(key, o) == o # "fail" /\ key = GoodKey
Served(key, o)   == o = "hit" \/ Accepted(key, o)

\* The uidValidity the upstream has for its folders, the offset handleSelect
\* adds to it, and the clock (Date.now()) when a handler reads it.
UpUidValidity == 7
uidValidityOffset == 1000000000
DateNow == 2000000000

\* The messages that carry \Seen upstream: the oldest one.
SeenUids == {10}

MsgList(S, u, o) ==
    LET q == IF o = "okdesc" THEN SortDesc(S) ELSE SortAsc(S)
    IN [i \in 1..Len(q) |-> [uid |-> q[i], deleted |-> q[i] \in u.deleted,
                             seen |-> q[i] \in SeenUids]]

validateApiKey(apiKey, o) == [NoRes EXCEPT !.ok = Accepted(apiKey, o)]

getSenderByEmail(apiKey, email, o) ==
    [NoRes EXCEPT !.sender = IF Served(apiKey, o) /\ email = TheEmail
                             THEN TheSender ELSE NoSender]

listSenders(apiKey, o) ==
    [NoRes EXCEPT !.senders = IF Served(apiKey, o) THEN <<TheSender>> ELSE <<>>]

listFolders(apiKey, senderId, o) ==
    [NoRes EXCEPT !.folders = IF Served(apiKey, o) /\ senderId = TheSender
                              THEN UpFolders ELSE {}]

getFolderStatus(u, apiKey, senderId, folderName, o) ==
    IF Served(apiKey, o) /\ senderId = TheSender /\ folderName \in UpFolders
    THEN [NoRes EXCEPT !.ok = TRUE,
                       !.exists = IF folderName = Inbox THEN Cardinality(u.msgs) ELSE 0,
                       !.unseen = IF folderName = Inbox
                                  THEN Cardinality(u.msgs \ SeenUids) ELSE 0,
                       !.uidValidity = UpUidValidity]
    ELSE NoRes

\* options.uids: a sequence of UIDs, or <<>> for none (every message).
listMessages(u, apiKey, senderId, folderName, uids, o) ==
    IF Served(apiKey, o) /\ senderId = TheSender /\ folderName = Inbox
    THEN [NoRes EXCEPT !.msgs =
            MsgList(IF uids = <<>> THEN u.msgs ELSE u.msgs \cap Range1(uids), u, o)]
    ELSE NoRes

\* The upstream echoes a stored message as {headers, text}: the header lines
\* before the empty line, and the text after it.
IsEmptyLine(line) == line = <<>>
BodyOf(message) ==
    LET k == CHOOSE i \in 1..Len(message) :
                 /\ IsEmptyLine(message[i])
                 /\ \A j \in 1..(i - 1) : ~IsEmptyLine(message[j])
    IN [headers |-> SubSeq(message, 1, k - 1),
        text |-> IF k < Len(message) /\ message[k + 1] # <<>> THEN message[k + 1][1]
                 ELSE ""]
OldBody == [headers |-> <<HeaderLine("Subject", "old")>>, text |-> "old"]

getMessageBody(u, apiKey, senderId, uid, folderName, o) ==
    LET ok == Served(apiKey, o) /\ senderId = TheSender
                 /\ folderName = Inbox /\ uid \in u.msgs
    IN [NoRes EXCEPT !.ok = ok,
                     !.body = IF ~ok THEN NoRes.body
                              ELSE IF uid = NewUid THEN BodyOf(u.stored) ELSE OldBody]

\* The writes: never cached.  .ok says whether the upstream did it.
WriteOk(u, apiKey, senderId, uid, folderName, o) ==
    Accepted(apiKey, o) /\ senderId = TheSender /\ folderName = Inbox /\ uid \in u.msgs

updateFlags(u, apiKey, senderId, uid, folderName, change, o) ==
    [NoRes EXCEPT !.ok = WriteOk(u, apiKey, senderId, uid, folderName, o)]
UpAfterFlags(u, uid, change, ok) ==
    IF ~ok THEN u
    ELSE IF change = "-FLAGS" THEN [u EXCEPT !.deleted = @ \ {uid}]
    ELSE [u EXCEPT !.deleted = @ \cup {uid}]

copyMessage(u, apiKey, senderId, uid, sourceFolder, targetFolder, o) ==
    LET ok == WriteOk(u, apiKey, senderId, uid, sourceFolder, o) /\ targetFolder \in UpFolders
    IN [NoRes EXCEPT !.ok = ok, !.n = IF ok THEN uid + 100 ELSE 0]

moveMessage(u, apiKey, senderId, uid, sourceFolder, targetFolder, o) ==
    copyMessage(u, apiKey, senderId, uid, sourceFolder, targetFolder, o)

deleteMessage(u, apiKey, senderId, uid, folderName, o) ==
    [NoRes EXCEPT !.ok = WriteOk(u, apiKey, senderId, uid, folderName, o)]

\* The list EXPUNGE and CLOSE ask for, listMessages(.., {fields: [UID, FLAGS]}),
\* goes through the memory cache under a key of its own, which no write
\* deletes.  u.listed is that entry where the specification keeps it (on): the
\* messages and their \Deleted flags as they were when the list was stored.
NoListed == [on |-> FALSE, set |-> FALSE, msgs |-> {}, deleted |-> {}]
FlagsListHit(u, senderId, folderName) ==
    u.listed.on /\ u.listed.set /\ senderId = TheSender /\ folderName = Inbox
FlagsList(u, apiKey, senderId, folderName, o) ==
    IF FlagsListHit(u, senderId, folderName)
    THEN [NoRes EXCEPT !.msgs = MsgList(u.listed.msgs, u.listed, "ok")]
    ELSE listMessages(u, apiKey, senderId, folderName, <<>>, o)
\* if (this.cache && messages.length > 0) this.cache.memory.set(key, messages, ..)
UpAfterFlagsList(u, senderId, folderName, res) ==
    IF u.listed.on /\ ~FlagsListHit(u, senderId, folderName)
          /\ senderId = TheSender /\ folderName = Inbox /\ res.msgs # <<>>
    THEN [u EXCEPT !.listed = [on |-> TRUE, set |-> TRUE, msgs |-> u.msgs,
                               deleted |-> u.deleted]]
    ELSE u
FlagsListOutcome(u, senderId, folderName, o) ==
    IF FlagsListHit(u, senderId, folderName) THEN "hit" ELSE o

UpWithout(u, uid, ok) ==
    IF ok THEN [u EXCEPT !.msgs = @ \ {uid}, !.deleted = @ \ {uid}] ELSE u

searchMessages(u, apiKey, senderId, folderName, o) ==
    listMessages(u, apiKey, senderId, folderName, <<>>, IF o = "hit" THEN "ok" ELSE o)

\* The upstream stores one appended message per folder, under NewUid.
appendMessage(u, apiKey, senderId, folderName, message, o) ==
    LET ok == /\ Accepted(apiKey, o) /\ senderId = TheSender /\ folderName \in UpFolders
              /\ folderName = Inbox => NewUid \notin u.msgs
    IN [NoRes EXCEPT !.ok = ok, !.n = IF ok THEN NewUid ELSE 0]
UpAfterAppend(u, folderName, message, ok) ==
    IF ok /\ folderName = Inbox
    THEN [u EXCEPT !.msgs = @ \cup {NewUid}, !.stored = message]
    ELSE u

createFolder(apiKey, senderId, folderName, o) ==
    [NoRes EXCEPT !.ok = Accepted(apiKey, o) /\ senderId = TheSender
                         /\ folderName \notin UpFolders]

\* Looks the folder up by name (listFolders), then sends the DELETE.
deleteFolder(apiKey, senderId, folderName, o) ==
    [NoRes EXCEPT !.ok = Accepted(apiKey, o) /\ senderId = TheSender
                         /\ folderName \in UpFolders]

\* ------------------------------------------------------- handler outcomes
\* A handler runs from where it stands (l.at) to its next await, to its return
\* or to an uncaught exception.  k: "await", "done", "throw".
CachedCalls == {"validateApiKey", "getSenderByEmail", "listSenders", "listFolders",
                "getFolderStatus", "listMessages", "getMessageBody"}

Done(s, h, u, l, out) ==
    [k |-> "done", s |-> s, h |-> h, u |-> u, l |-> l, out |-> out, err |-> "",
     direct |-> <<>>, call |-> "", key |-> NoKey, x |-> NoX]

Throw(s, h, u, l, err) ==
    [k |-> "throw", s |-> s, h |-> h, u |-> u, l |-> l, out |-> <<>>, err |-> err,
     direct |-> <<>>, call |-> "", key |-> NoKey, x |-> NoX]

\* await api.<call>(key, ...): u is the upstream after the request, res its result.
Call(s, h, u, l, call, key, res, o) ==
    [k |-> "await", s |-> s, h |-> h, u |-> u,
     l |-> [l EXCEPT !.at = call, !.res = res,
                     !.sync = (o = "hit" /\ call \in CachedCalls),
                     !.did = IF call \in {"copyMessage", "moveMessage"} /\ res.ok
                             THEN @ + 1 ELSE @],
     out |-> <<>>, err |-> "", direct |-> <<>>, call |-> call, key |-> key, x |-> NoX]

Bad(c, text)      == <<Tagged(c.tag, "BAD", "", text)>>
No(c, code, text) == <<Tagged(c.tag, "NO", code, text)>>
Ok(c, code, text) == <<Tagged(c.tag, "OK", code, text)>>

TypeError == "Cannot read properties of undefined"

\* --------------------------------------------------------- resolveMailbox
RMPoints == {"start", "rm.getSenderByEmail", "rm.listSenders", "rm.listFolders"}

AsRM(out, at) == [out EXCEPT !.l.at = at]

\* Returns an await outcome, or k = "resolved" with l.sid / l.fname set to the
\* { senderId, folderName } the function returns.
resolveMailbox(s, h, u, l, o) ==
    LET mailboxName == l.cmd.mbox
        normalizedName == normalizeFolderName(mailboxName)
        Resolved(sid, fname) ==
            [Done(s, h, u, [l EXCEPT !.sid = sid, !.fname = fname], <<>>)
                EXCEPT !.k = "resolved"]
        ListSenders ==
            AsRM(Call(s, h, u, l, "listSenders", s.apiKey, listSenders(s.apiKey, o), o),
                 "rm.listSenders")
    IN CASE l.at = "start" ->
              IF s.selectedSender # NoSender
              THEN Resolved(s.selectedSender, normalizedName)
              ELSE IF Len(mailboxName) > 1
              THEN AsRM(Call(s, h, u, l, "getSenderByEmail", s.apiKey,
                             getSenderByEmail(s.apiKey, mailboxName[1], o), o),
                        "rm.getSenderByEmail")
              ELSE ListSenders
         [] l.at = "rm.getSenderByEmail" ->
              IF l.res.sender # NoSender
              THEN Resolved(l.res.sender, normalizeFolderName(Tail(mailboxName)))
              ELSE ListSenders
         [] l.at = "rm.listSenders" ->
              IF l.res.senders = <<>>
              THEN Resolved(NoSender, normalizedName)
              ELSE AsRM(Call(s, h, u, [l EXCEPT !.sid = l.res.senders[1]], "listFolders",
                             s.apiKey, listFolders(s.apiKey, l.res.senders[1], o), o),
                        "rm.listFolders")
         [] OTHER ->      \* "rm.listFolders": the only sender's folders
              IF normalizedName \in l.res.folders
              THEN Resolved(l.sid, normalizedName)
              ELSE Resolved(NoSender, normalizedName)

\* ---------------------------------------------------------------- handlers
CAPABILITY(s, h, u, l, o) ==
    Done(s, h, u, l, <<Untagged("CAPABILITY", 0, 0)>> \o Ok(l.cmd, "", "CAPABILITY completed"))

NOOP(s, h, u, l, o) == Done(s, h, u, l, Ok(l.cmd, "", "NOOP completed"))

CHECK(s, h, u, l, o) == Done(s, h, u, l, Ok(l.cmd, "", "CHECK completed"))

LOGOUT(s, h, u, l, o) ==
    Done([s EXCEPT !.state = "logout"], h, u, l,
         <<Untagged("BYE", 0, 0)>> \o Ok(l.cmd, "", "LOGOUT completed"))

NAMESPACE(s, h, u, l, o) ==
    Done(s, h, u, l, <<Untagged("NAMESPACE", 0, 0)>> \o Ok(l.cmd, "", "NAMESPACE completed"))

RENAME(s, h, u, l, o) ==
    IF l.cmd.mbox = NoName
    THEN Done(s, h, u, l, Bad(l.cmd, "RENAME requires old and new mailbox names"))
    ELSE Done(s, h, u, l, No(l.cmd, "", "RENAME not supported"))

SUBSCRIBE(s, h, u, l, o) ==
    IF l.cmd.mbox = NoName
    THEN Done(s, h, u, l, Bad(l.cmd, "SUBSCRIBE requires mailbox name"))
    ELSE Done(s, h, u, l, Ok(l.cmd, "", "SUBSCRIBE completed"))

UNSUBSCRIBE(s, h, u, l, o) ==
    IF l.cmd.mbox = NoName
    THEN Done(s, h, u, l, Bad(l.cmd, "UNSUBSCRIBE requires mailbox name"))
    ELSE Done(s, h, u, l, Ok(l.cmd, "", "UNSUBSCRIBE completed"))

Authenticated(s, c, sender) ==
    [s EXCEPT !.state = "authenticated", !.apiKey = c.pass,
              !.workspaceId = "w1", !.selectedSender = sender]

LOGIN(s, h, u, l, o) ==
    LET c == l.cmd
    IN CASE l.at = "start" ->
              IF c.user = "" \/ c.pass = NoKey
              THEN Done(s, h, u, l, Bad(c, "LOGIN requires username and password"))
              ELSE IF ~isValidApiKeyFormat(c.pass)
              THEN Done(s, h, u, l, No(c, "AUTHENTICATIONFAILED", "Invalid API key format"))
              ELSE Call(s, h, u, l, "validateApiKey", c.pass, validateApiKey(c.pass, o), o)
         [] l.at = "validateApiKey" ->
              IF ~l.res.ok
              THEN Done(s, h, u, l, No(c, "AUTHENTICATIONFAILED", "Invalid API key"))
              ELSE IF c.user # "api" /\ c.user # "*"
              THEN Call(s, h, u, l, "getSenderByEmail", c.pass,
                        getSenderByEmail(c.pass, c.user, o), o)
              ELSE Done(Authenticated(s, c, NoSender), h, u, l, Ok(c, "", "LOGIN completed"))
         [] OTHER ->      \* "getSenderByEmail"
              IF l.res.sender = NoSender
              THEN Done(s, h, u, l,
                        No(c, "AUTHENTICATIONFAILED", "Sender not found or not accessible"))
              ELSE Done(Authenticated(s, c, l.res.sender), h, u, l,
                        Ok(c, "", "LOGIN completed"))

AUTHENTICATE(s, h, u, l, o) ==
    LET c == l.cmd
    IN CASE l.at = "start" ->
              IF c.mech # "PLAIN"
              THEN Done(s, h, u, l, No(c, "", "Only PLAIN authentication supported"))
              ELSE IF c.user = "" /\ c.pass = NoKey      \* no authData argument
              THEN Done(s, h, u, l, No(c, "", "AUTHENTICATE PLAIN requires credentials"))
              ELSE IF c.pass = NoKey \/ ~isValidApiKeyFormat(c.pass)
              THEN Done(s, h, u, l, No(c, "AUTHENTICATIONFAILED", "Invalid API key format"))
              ELSE Call(s, h, u, l, "validateApiKey", c.pass, validateApiKey(c.pass, o), o)
         [] l.at = "validateApiKey" ->
              IF ~l.res.ok
              THEN Done(s, h, u, l, No(c, "AUTHENTICATIONFAILED", "Invalid API key"))
              ELSE IF c.user # "" /\ c.user # "api" /\ c.user # "*"
              THEN Call(s, h, u, l, "getSenderByEmail", c.pass,
                        getSenderByEmail(c.pass, c.user, o), o)
              ELSE Done(Authenticated(s, c, NoSender), h, u, l,
                        Ok(c, "", "AUTHENTICATE completed"))
         [] OTHER ->      \* "getSenderByEmail": an unknown sender is not an error
              Done(Authenticated(s, c, l.res.sender), h, u, l,
                   Ok(c, "", "AUTHENTICATE completed"))

matchesPattern(name, pattern) ==
    IF pattern = "*" THEN TRUE
    ELSE IF pattern = "%" THEN Len(name) = 1
    ELSE FALSE       \* the literal patterns of the alphabet match no folder

UpFolderSeq == <<Inbox, Trash>>      \* the order the upstream lists folders in

\* LIST and LSUB have the same body but for the text of the untagged lines.
ListFolders(s, h, u, l, o, word) ==
    LET c == l.cmd
        Folders(sid) ==
            Call(s, h, u, [l EXCEPT !.sid = sid], "listFolders", s.apiKey,
                 listFolders(s.apiKey, sid, o), o)
        FullName(f) == IF s.selectedSender # NoSender THEN f ELSE <<TheEmail>> \o f
        Listed(f) == f \in l.res.folders /\ matchesPattern(FullName(f), c.pattern)
        names == SelectSeq(UpFolderSeq, Listed)
    IN CASE l.at = "start" ->
              IF s.selectedSender # NoSender THEN Folders(s.selectedSender)
              ELSE Call(s, h, u, l, "listSenders", s.apiKey, listSenders(s.apiKey, o), o)
         [] l.at = "listSenders" ->
              IF l.res.senders = <<>>
              THEN Done(s, h, u, l, Ok(c, "", "completed"))
              ELSE Folders(l.res.senders[1])
         [] OTHER ->      \* "listFolders"
              IF l.res.folders # {} /\ c.pattern = ""
              THEN Throw(s, h, u, l, TypeError)      \* pattern.replace on undefined
              ELSE Done(s, h, u, l,
                        [i \in 1..Len(names) |->
                            [Untagged(word, 0, 0) EXCEPT !.mailbox = FullName(names[i])]]
                            \o Ok(c, "", "completed"))

LIST(s, h, u, l, o) == ListFolders(s, h, u, l, o, "LIST")
LSUB(s, h, u, l, o) == ListFolders(s, h, u, l, o, "LSUB")

CREATE(s, h, u, l, o) ==
    LET c == l.cmd
        r == resolveMailbox(s, h, u, l, o)
    IN CASE l.at = "start" /\ c.mbox = NoName ->
              Done(s, h, u, l, Bad(c, "CREATE requires mailbox name"))
         [] l.at \in RMPoints ->
              IF r.k # "resolved" THEN r
              ELSE IF r.l.sid = NoSender
              THEN Done(s, h, u, l, No(c, "", "Cannot determine sender for mailbox"))
              ELSE Call(s, h, u, r.l, "createFolder", s.apiKey,
                        createFolder(s.apiKey, r.l.sid, r.l.fname, o), o)
         [] OTHER ->
              IF ~l.res.ok THEN Done(s, h, u, l, No(c, "", "Failed to create mailbox"))
              ELSE Done(s, h, u, l, Ok(c, "", "CREATE completed"))

DELETE(s, h, u, l, o) ==
    LET c == l.cmd
        r == resolveMailbox(s, h, u, l, o)
    IN CASE l.at = "start" /\ c.mbox = NoName ->
              Done(s, h, u, l, Bad(c, "DELETE requires mailbox name"))
         [] l.at \in RMPoints ->
              IF r.k # "resolved" THEN r
              ELSE IF r.l.sid = NoSender
              THEN Done(s, h, u, l, No(c, "", "Mailbox not found"))
              ELSE Call(s, h, u, r.l, "deleteFolder", s.apiKey,
                        deleteFolder(s.apiKey, r.l.sid, r.l.fname, o), o)
         [] OTHER ->
              IF ~l.res.ok THEN Done(s, h, u, l, No(c, "", "Cannot delete mailbox"))
              ELSE Done(s, h, u, l, Ok(c, "", "DELETE completed"))

STATUS(s, h, u, l, o) ==
    LET c == l.cmd
        r == resolveMailbox(s, h, u, l, o)
    IN CASE l.at = "start" /\ c.mbox = NoName ->
              Done(s, h, u, l, Bad(c, "STATUS requires mailbox name"))
         [] l.at \in RMPoints ->
              IF r.k # "resolved" THEN r
              ELSE IF r.l.sid = NoSender
              THEN Done(s, h, u, l, No(c, "", "Mailbox not found"))
              ELSE Call(s, h, u, r.l, "getFolderStatus", s.apiKey,
                        getFolderStatus(u, s.apiKey, r.l.sid, r.l.fname, o), o)
         [] OTHER ->
              IF ~l.res.ok THEN Done(s, h, u, l, No(c, "", "Failed to get status"))
              ELSE Done(s, h, u, l,
                        <<Untagged("STATUS", l.res.exists, 0)>> \o Ok(c, "", "STATUS completed"))

MsgUids(msgs) == {msgs[i].uid : i \in 1..Len(msgs)}

\* The loop of handleSelect over messages: i + 1 for the first message
\* without \Seen, 0 if every message has it.
firstUnseenSeq(messages) ==
    LET U == {i \in 1..Len(messages) : ~messages[i].seen}
    IN IF U = {} THEN 0 ELSE CHOOSE i \in U : \A j \in U : i <= j

\* free: the identity of the object `session.selectedFolder = { ... }` creates.
handleSelect(s, h, u, l, o, readOnly, free) ==
    LET c == l.cmd
        r == resolveMailbox(s, h, u, l, o)
        Finish(s1, messageUids, messages) ==
            Done([s1 EXCEPT !.selectedFolder = free],
                 [h EXCEPT ![free] = [live |-> TRUE, name |-> l.fname,
                                      readOnly |-> readOnly, messageUids |-> messageUids,
                                      announced |-> l.exists]],
                 u, l,
                 <<Untagged("EXISTS", l.exists, 0), Untagged("RECENT", 0, 0),
                   Untagged("FLAGS", 0, 0), Untagged("OK PERMANENTFLAGS", 0, 0),
                   Untagged("OK UIDVALIDITY", l.uidValidity + uidValidityOffset, 0),
                   Untagged("OK UIDNEXT", 0, 0)>>
                  \o (IF l.unseen > 0 /\ Len(messages) > 0 /\ firstUnseenSeq(messages) > 0
                      THEN <<Untagged("OK UNSEEN", firstUnseenSeq(messages), 0)>>
                      ELSE <<>>)
                  \o Ok(c, IF readOnly THEN "READ-ONLY" ELSE "READ-WRITE", "completed"))
    IN CASE l.at = "start" /\ c.mbox = NoName ->
              Done(s, h, u, l, Bad(c, "requires mailbox name"))
         [] l.at \in RMPoints ->
              IF r.k # "resolved" THEN r
              ELSE IF r.l.sid = NoSender
              THEN Done(s, h, u, l, No(c, "", "Mailbox not found"))
              ELSE Call(s, h, u, r.l, "getFolderStatus", s.apiKey,
                        getFolderStatus(u, s.apiKey, r.l.sid, r.l.fname, o), o)
         [] l.at = "getFolderStatus" ->
              IF ~l.res.ok THEN Done(s, h, u, l, No(c, "", "Failed to open mailbox"))
              ELSE Call(s, h, u,
                        [l EXCEPT !.exists = l.res.exists, !.unseen = l.res.unseen,
                                  !.uidValidity = l.res.uidValidity],
                        "listMessages",
                        s.apiKey, listMessages(u, s.apiKey, l.sid, l.fname, <<>>, o), o)
         [] l.at = "listMessages" ->
              IF s.selectedSender = NoSender
              THEN Call([s EXCEPT !.state = "selected"], h, u,
                        [l EXCEPT !.uids = SortAsc(MsgUids(l.res.msgs)),
                                  !.msgs = l.res.msgs],
                        "listSenders", s.apiKey, listSenders(s.apiKey, o), o)
              ELSE Finish([s EXCEPT !.state = "selected"], SortAsc(MsgUids(l.res.msgs)),
                          l.res.msgs)
         [] OTHER ->      \* "listSenders"
              Finish(IF l.sid \in Range1(l.res.senders)
                     THEN [s EXCEPT !.selectedSender = l.sid] ELSE s,
                     l.uids, l.msgs)

SELECT(s, h, u, l, o, free)  == handleSelect(s, h, u, l, o, FALSE, free)
EXAMINE(s, h, u, l, o, free) == handleSelect(s, h, u, l, o, TRUE, free)

IsDeleted(m) == m.deleted

CLOSE(s, h, u, l, o) ==
    LET c == l.cmd
        Finish(l1) ==
            Done([s EXCEPT !.state = "authenticated", !.selectedFolder = 0], h, u, l1,
                 Ok(c, "", "CLOSE completed"))
        ForDeleted(l1) ==      \* for (const msg of deletedMessages), l1.msgs the rest
            IF l1.msgs = <<>> THEN Finish(l1)
            ELSE IF s.selectedSender = NoSender THEN Throw(s, h, u, l1, TypeError)
            ELSE LET uid == Head(l1.msgs).uid
                     res == deleteMessage(u, s.apiKey, s.selectedSender, uid,
                                          h[l1.folder].name, o)
                 IN Call(s, h, UpWithout(u, uid, res.ok),
                         [l1 EXCEPT !.msgs = Tail(@), !.k = uid],
                         "deleteMessage", s.apiKey, res, o)
    IN CASE l.at = "start" ->
              IF s.selectedFolder # 0 /\ s.selectedSender # NoSender
              THEN LET res == FlagsList(u, s.apiKey, s.selectedSender,
                                        h[s.selectedFolder].name, o)
                   IN Call(s, h,
                           UpAfterFlagsList(u, s.selectedSender, h[s.selectedFolder].name,
                                            res),
                           [l EXCEPT !.folder = s.selectedFolder], "listMessages",
                           s.apiKey, res,
                           FlagsListOutcome(u, s.selectedSender, h[s.selectedFolder].name,
                                            o))
              ELSE Finish(l)
         [] l.at = "listMessages" ->
              ForDeleted([l EXCEPT !.msgs = SelectSeq(l.res.msgs, IsDeleted)])
         [] OTHER -> ForDeleted(l)

SeqNum(h, folder, uid) == IndexOf(h[folder].messageUids, uid) + 1

\* parseFetchItems on the item lists the clients send here: one item per
\* word, BODY.PEEK[section] is a BODY item with peek set.
FetchItem(type, section, peek) == [type |-> type, section |-> section, peek |-> peek]

parseFetchItems(itemsStr) ==
    CASE itemsStr = "" -> <<>>
      [] itemsStr = "BODY[]" -> <<FetchItem("BODY", "", FALSE)>>
      [] itemsStr = "BODY.PEEK[]" -> <<FetchItem("BODY", "", TRUE)>>
      [] itemsStr = "(BODY[] BODY.PEEK[HEADER])" ->
            <<FetchItem("BODY", "", FALSE), FetchItem("BODY", "HEADER", TRUE)>>
      [] OTHER -> <<FetchItem(itemsStr, "", FALSE)>>

\* buildRfc822Message for a body without an html part: the headers without
\* Content-Type, the generated Content-Type, the empty line, the text.
IsContentType(key) == key \in {"Content-Type", "content-type", "CONTENT-TYPE"}
buildRfc822Message(body) ==
    SelectSeq(body.headers, LAMBDA line : ~IsContentType(line[1]))
      \o <<HeaderLine("Content-Type", PlainType), <<>>,
           IF body.text = "" THEN <<>> ELSE <<body.text>>>>

\* formatFetchResponse: the literal of a BODY[] or BODY.PEEK[] item.
FetchLiteral(items, body) ==
    IF \E i \in 1..Len(items) : items[i].type = "BODY" /\ items[i].section = ""
    THEN buildRfc822Message(body) ELSE <<>>

FETCH(s, h, u, l, o) ==
    LET c == l.cmd
        folder == s.selectedFolder
        items == parseFetchItems(c.items)
        needsBody == \E i \in 1..Len(items) :
                        items[i].type \in {"BODY", "RFC822", "RFC822.TEXT", "RFC822.HEADER"}
        peek == \E i \in 1..Len(items) : items[i].peek      \* items.some(i => i.peek)
        uids == ResolveUids(c.useUid, c.set, h[folder].messageUids)
        Completed(resp) == Done(s, h, u, l, resp \o Ok(c, "", "FETCH completed"))
        ForMsgs(l1) ==      \* for (const msg of messages), l1.msgs the rest
            IF l1.msgs = <<>> THEN Completed(l1.resp)
            ELSE IF ~needsBody
            THEN Completed([i \in 1..Len(l1.msgs) |->
                              Untagged("FETCH", SeqNum(h, l1.folder, l1.msgs[i].uid),
                                       l1.msgs[i].uid)])
            ELSE IF s.selectedSender = NoSender      \* caught: the message is skipped
            THEN Completed(l1.resp)
            ELSE Call(s, h, u, [l1 EXCEPT !.peek = peek], "getMessageBody", s.apiKey,
                      getMessageBody(u, s.apiKey, s.selectedSender, Head(l1.msgs).uid,
                                     h[l1.folder].name, o), o)
    IN CASE l.at = "start" ->
              IF c.set = <<>> \/ c.items = ""
              THEN Done(s, h, u, l, Bad(c, "FETCH requires sequence set and items"))
              ELSE IF folder = 0
              THEN Done(s, h, u, l, Bad(c, "No folder selected"))
              ELSE IF uids = <<>>
              THEN Done(s, h, u, l, Ok(c, "", "FETCH completed"))
              ELSE IF s.selectedSender = NoSender
              THEN Done(s, h, u, l, Bad(c, "No sender selected"))
              ELSE Call(s, h, u, [l EXCEPT !.folder = folder], "listMessages", s.apiKey,
                        listMessages(u, s.apiKey, s.selectedSender, h[folder].name, uids, o),
                        o)
         [] l.at = "listMessages" -> ForMsgs([l EXCEPT !.msgs = l.res.msgs])
         [] OTHER ->      \* "getMessageBody": format the message, go on with the rest
              ForMsgs([l EXCEPT !.msgs = Tail(@),
                                !.resp = Append(@, [Untagged("FETCH",
                                            SeqNum(h, l.folder, Head(l.msgs).uid),
                                            Head(l.msgs).uid)
                                          EXCEPT !.literal =
                                            FetchLiteral(items,
                                              IF l.res.ok THEN l.res.body
                                              ELSE NoRes.body)])])

STORE(s, h, u, l, o) ==
    LET c == l.cmd
        folder == s.selectedFolder
        upperAction == IF c.action \in {"+FLAGS", "+FLAGS.SILENT"} THEN "+FLAGS"
                       ELSE IF c.action \in {"-FLAGS", "-FLAGS.SILENT"} THEN "-FLAGS"
                       ELSE "FLAGS"
        silent == c.action \in {"+FLAGS.SILENT", "-FLAGS.SILENT", "FLAGS.SILENT"}
        ForUids(l1) ==      \* for (const uid of uids), l1.uids the rest
            IF l1.uids = <<>>
            THEN Done(s, h, u, l1, l1.resp \o Ok(c, "", "STORE completed"))
            ELSE IF s.selectedSender = NoSender
            THEN Throw(s, h, u, l1, TypeError)       \* session.selectedSender!.id
            ELSE LET uid == Head(l1.uids)
                     res == updateFlags(u, s.apiKey, s.selectedSender, uid,
                                        h[l1.folder].name, upperAction, o)
                 IN Call(s, h, UpAfterFlags(u, uid, upperAction, res.ok),
                         [l1 EXCEPT !.uids = Tail(@), !.k = uid],
                         "updateFlags", s.apiKey, res, o)
    IN CASE l.at = "start" ->
              IF c.set = <<>> \/ c.action = ""
              THEN Done(s, h, u, l, Bad(c, "STORE requires sequence set, action, and flags"))
              ELSE IF folder = 0
              THEN Throw(s, h, u, l, TypeError)      \* folder.messageUids
              ELSE ForUids([l EXCEPT !.folder = folder,
                               !.uids = ResolveUids(c.useUid, c.set, h[folder].messageUids)])
         [] OTHER ->      \* "updateFlags"
              ForUids(IF ~silent /\ l.res.ok
                      THEN [l EXCEPT !.resp = Append(@, Untagged("FETCH FLAGS",
                                                  SeqNum(h, l.folder, l.k), l.k))]
                      ELSE l)

SEARCH(s, h, u, l, o) ==
    LET c == l.cmd
        folder == s.selectedFolder
        found == [i \in 1..Len(l.res.msgs) |-> l.res.msgs[i].uid]
        InFolder(uid) == SeqNum(h, l.folder, uid) > 0
        results == IF c.useUid THEN found ELSE SelectSeq(found, InFolder)
    IN CASE l.at = "start" ->
              IF folder = 0 \/ s.selectedSender = NoSender
              THEN Throw(s, h, u, l, TypeError)
              ELSE Call(s, h, u, [l EXCEPT !.folder = folder], "searchMessages", s.apiKey,
                        searchMessages(u, s.apiKey, s.selectedSender, h[folder].name, o), o)
         [] OTHER ->
              Done(s, h, u, l,
                   <<Untagged("SEARCH", Len(results), 0)>> \o Ok(c, "", "SEARCH completed"))

\* COPY and MOVE up to the loop: the arguments, resolveMailbox, the target's
\* status, the UIDs.  l.uids is `uids`, l.k the index of the next one; the
\* outcome "loop" is the entry of the for loop over the UIDs.
Transfer(s, h, u, l, o, word) ==
    LET c == l.cmd
    IN CASE l.at = "start" /\ (c.set = <<>> \/ c.mbox = NoName) ->
              Done(s, h, u, l, Bad(c, word))
         [] l.at \in RMPoints ->
              LET l0 == IF l.at = "start" THEN [l EXCEPT !.folder = s.selectedFolder] ELSE l
                  r0 == resolveMailbox(s, h, u, l0, o)
              IN IF r0.k # "resolved" THEN r0
                 ELSE IF r0.l.sid = NoSender /\ s.selectedSender = NoSender
                 THEN Throw(s, h, u, l, TypeError)      \* session.selectedSender!.id
                 ELSE Call(s, h, u, r0.l, "getFolderStatus", s.apiKey,
                           getFolderStatus(u, s.apiKey,
                               IF r0.l.sid # NoSender THEN r0.l.sid ELSE s.selectedSender,
                               r0.l.fname, o), o)
         [] OTHER ->      \* "getFolderStatus"
              IF l.folder = 0 THEN Throw(s, h, u, l, TypeError)      \* folder.messageUids
              ELSE [Done(s, h, u,
                         [l EXCEPT !.k = 1,
                              !.uids = ResolveUids(c.useUid, c.set, h[l.folder].messageUids),
                              !.uidValidity = IF l.res.ok /\ l.res.uidValidity # 0
                                              THEN l.res.uidValidity ELSE DateNow],
                         <<>>)
                      EXCEPT !.k = "loop"]

CopyUid_Always(c, l, text) ==
    <<[Tagged(c.tag, "OK", "COPYUID", text)
          EXCEPT !.src = l.uids, !.dst = l.newUids, !.n = l.uidValidity]>>

CopyUid(c, l, text) ==
    <<[Tagged(c.tag, "OK", IF l.newUids # <<>> THEN "COPYUID" ELSE "", text)
          EXCEPT !.src = IF l.newUids # <<>> THEN l.uids ELSE <<>>, !.dst = l.newUids,
                 !.n = IF l.newUids # <<>> THEN l.uidValidity ELSE 0]>>

COPY(s, h, u, l, o) ==
    LET c == l.cmd
        ForUids(l1) ==
            IF l1.k > Len(l1.uids)
            THEN Done(s, h, u, l1, CopyUid(c, l1, "COPY completed"))
            ELSE IF s.selectedSender = NoSender THEN Throw(s, h, u, l1, TypeError)
            ELSE Call(s, h, u, l1, "copyMessage", s.apiKey,
                      copyMessage(u, s.apiKey, s.selectedSender, l1.uids[l1.k],
                                  h[l1.folder].name, l1.fname, o), o)
        t == Transfer(s, h, u, l, o, "COPY requires sequence set and target mailbox")
    IN IF l.at # "copyMessage" THEN (IF t.k = "loop" THEN ForUids(t.l) ELSE t)
       ELSE ForUids([l EXCEPT !.k = @ + 1,
                              !.newUids = IF l.res.n # 0 THEN Append(@, l.res.n) ELSE @])

\* An EXPUNGE that numbers the message by its position among the UIDs of the
\* command instead of its position in messageUids: C8 tells the two apart.
ExpungeOne_PositionInCommand(h, l, uid) ==
    LET idx == IndexOf(h[l.folder].messageUids, uid)
        pos == IF l.cmd.name = "MOVE" THEN IndexOf(l.uids, uid) ELSE idx
    IN IF idx >= 0
       THEN [h |-> [h EXCEPT ![l.folder].messageUids = Splice(@, idx),
                             ![l.folder].announced = @ - 1],
             l |-> [l EXCEPT !.resp = Append(@, Untagged("EXPUNGE", pos + 1, uid))],
             x |-> [n |-> pos + 1, uid |-> uid, obj |-> l.folder,
                    after |-> Splice(h[l.folder].messageUids, idx)]]
       ELSE [h |-> h, l |-> l, x |-> NoX]

\* The EXPUNGE of one message: its position now, the untagged line, the splice.
ExpungeOne(h, l, uid) ==
    LET idx == IndexOf(h[l.folder].messageUids, uid)
    IN IF idx >= 0
       THEN [h |-> [h EXCEPT ![l.folder].messageUids = Splice(@, idx),
                             ![l.folder].announced = @ - 1],
             l |-> [l EXCEPT !.resp = Append(@, Untagged("EXPUNGE", idx + 1, uid))],
             x |-> [n |-> idx + 1, uid |-> uid, obj |-> l.folder,
                    after |-> Splice(h[l.folder].messageUids, idx)]]
       ELSE [h |-> h, l |-> l, x |-> NoX]

MOVE(s, h, u, l, o) ==
    LET c == l.cmd
        ForUids(h1, l1, x) ==
            IF l1.k > Len(l1.uids)
            THEN [Done(s, h1, u, l1, l1.resp \o CopyUid(c, l1, "MOVE completed"))
                    EXCEPT !.x = x]
            ELSE IF s.selectedSender = NoSender THEN Throw(s, h1, u, l1, TypeError)
            ELSE LET uid == l1.uids[l1.k]
                     res == moveMessage(u, s.apiKey, s.selectedSender, uid,
                                        h1[l1.folder].name, l1.fname, o)
                 IN [Call(s, h1, UpWithout(u, uid, res.ok), l1, "moveMessage",
                          s.apiKey, res, o) EXCEPT !.x = x]
        t == Transfer(s, h, u, l, o, "MOVE requires sequence set and target mailbox")
    IN IF l.at # "moveMessage" THEN (IF t.k = "loop" THEN ForUids(h, t.l, NoX) ELSE t)
       ELSE LET uid == l.uids[l.k]
                l1 == [l EXCEPT !.k = @ + 1, !.newUids = Append(@, l.res.n)]
                e == ExpungeOne(h, l1, uid)
            IN IF l.res.n # 0 THEN ForUids(e.h, e.l, e.x)
               ELSE ForUids(h, [l EXCEPT !.k = @ + 1], NoX)

EXPUNGE(s, h, u, l, o) ==
    LET c == l.cmd
        folder == s.selectedFolder
        ForDeleted(h1, l1, x) ==
            IF l1.msgs = <<>>
            THEN [Done(s, h1, u, l1, l1.resp \o Ok(c, "", "EXPUNGE completed"))
                    EXCEPT !.x = x]
            ELSE IF s.selectedSender = NoSender THEN Throw(s, h1, u, l1, TypeError)
            ELSE LET uid == Head(l1.msgs).uid
                     res == deleteMessage(u, s.apiKey, s.selectedSender, uid,
                                          h1[l1.folder].name, o)
                 IN [Call(s, h1, UpWithout(u, uid, res.ok),
                          [l1 EXCEPT !.msgs = Tail(@), !.k = uid],
                          "deleteMessage", s.apiKey, res, o) EXCEPT !.x = x]
    IN CASE l.at = "start" ->
              IF folder = 0 \/ s.selectedSender = NoSender
              THEN Done(s, h, u, l, Bad(c, "No folder selected"))
              ELSE LET res == FlagsList(u, s.apiKey, s.selectedSender, h[folder].name, o)
                   IN Call(s, h,
                           UpAfterFlagsList(u, s.selectedSender, h[folder].name, res),
                           [l EXCEPT !.folder = folder], "listMessages", s.apiKey, res,
                           FlagsListOutcome(u, s.selectedSender, h[folder].name, o))
         [] l.at = "listMessages" ->
              ForDeleted(h, [l EXCEPT !.msgs = SelectSeq(l.res.msgs, IsDeleted)], NoX)
         [] OTHER ->      \* "deleteMessage"
              LET e == ExpungeOne(h, l, l.k)
              IN IF l.res.ok THEN ForDeleted(e.h, e.l, e.x) ELSE ForDeleted(h, l, NoX)

APPEND(s, h, u, l, o) ==
    LET c == l.cmd
        r == resolveMailbox(s, h, u, l, o)
    IN CASE l.at = "start" /\ c.mbox = NoName ->
              Done(s, h, u, l, Bad(c, "APPEND requires mailbox name"))
         [] l.at = "start" /\ ~c.literal ->
              Done(s, h, u, l, Bad(c, "APPEND requires message data"))
         [] l.at \in RMPoints ->
              IF r.k # "resolved" THEN r
              ELSE IF r.l.sid = NoSender
              THEN Done(s, h, u, l, No(c, "TRYCREATE", "Mailbox does not exist"))
              ELSE LET res == appendMessage(u, s.apiKey, r.l.sid, r.l.fname,
                                            c.literalData, o)
                   IN Call(s, h, UpAfterAppend(u, r.l.fname, c.literalData, res.ok),
                           r.l, "appendMessage", s.apiKey, res, o)
         [] OTHER ->
              IF ~l.res.ok THEN Done(s, h, u, l, No(c, "", "Failed to append message"))
              ELSE Done(s, h, u, l,
                        <<[Tagged(c.tag, "OK", "APPENDUID", "APPEND completed")
                              EXCEPT !.n = DateNow, !.uid = l.res.n]>>)

\* Arms the idle timer (any timer armed before stays pending) and answers on
\* the socket itself; the tagged response is left to DONE or to the timer.
IDLE(s, h, u, l, o) ==
    [Done([s EXCEPT !.idling = TRUE, !.idleTag = l.cmd.tag, !.idleTimeout = TRUE,
                    !.timers = @ + 1],
          h, u, l, <<>>)
       EXCEPT !.direct = <<Continuation("idling")>>]

\* -------------------------------------------------------------- dispatcher
\* The error text, "" for null.
validateState(s, cmd) ==
    IF cmd \in {"CAPABILITY", "NOOP", "LOGOUT"} THEN ""
    ELSE IF cmd \in {"LOGIN", "AUTHENTICATE"}
    THEN (IF s.state # "not_authenticated" THEN "Already authenticated" ELSE "")
    ELSE IF s.state = "not_authenticated" THEN "Not authenticated"
    ELSE IF cmd \in {"CHECK", "CLOSE", "EXPUNGE", "SEARCH", "FETCH", "STORE", "COPY",
                     "MOVE", "UID", "IDLE"} /\ s.state # "selected"
    THEN "No mailbox selected"
    ELSE ""

handlers(s, h, u, l, o, free) ==
    LET n == l.cmd.name
    IN CASE n = "CAPABILITY"   -> CAPABILITY(s, h, u, l, o)
         [] n = "NOOP"         -> NOOP(s, h, u, l, o)
         [] n = "CHECK"        -> CHECK(s, h, u, l, o)
         [] n = "LOGOUT"       -> LOGOUT(s, h, u, l, o)
         [] n = "LOGIN"        -> LOGIN(s, h, u, l, o)
         [] n = "AUTHENTICATE" -> AUTHENTICATE(s, h, u, l, o)
         [] n = "LIST"         -> LIST(s, h, u, l, o)
         [] n = "LSUB"         -> LSUB(s, h, u, l, o)
         [] n = "CREATE"       -> CREATE(s, h, u, l, o)
         [] n = "DELETE"       -> DELETE(s, h, u, l, o)
         [] n = "RENAME"       -> RENAME(s, h, u, l, o)
         [] n = "SUBSCRIBE"    -> SUBSCRIBE(s, h, u, l, o)
         [] n = "UNSUBSCRIBE"  -> UNSUBSCRIBE(s, h, u, l, o)
         [] n = "SELECT"       -> SELECT(s, h, u, l, o, free)
         [] n = "EXAMINE"      -> EXAMINE(s, h, u, l, o, free)
         [] n = "STATUS"       -> STATUS(s, h, u, l, o)
         [] n = "CLOSE"        -> CLOSE(s, h, u, l, o)
         [] n = "FETCH"        -> FETCH(s, h, u, l, o)
         [] n = "STORE"        -> STORE(s, h, u, l, o)
         [] n = "SEARCH"       -> SEARCH(s, h, u, l, o)
         [] n = "COPY"         -> COPY(s, h, u, l, o)
         [] n = "MOVE"         -> MOVE(s, h, u, l, o)
         [] n = "EXPUNGE"      -> EXPUNGE(s, h, u, l, o)
         [] n = "APPEND"       -> APPEND(s, h, u, l, o)
         [] n = "IDLE"         -> IDLE(s, h, u, l, o)
         [] OTHER              -> NAMESPACE(s, h, u, l, o)

\* A dispatcher that answers an unknown command with the tag of the session's
\* last IDLE instead of the command's: C6 tells the two apart.
handleCommand_TagFromSession(s, h, u, l, o, free) ==
    IF l.cmd.name \notin HandlerNames
    THEN Done(s, h, u, l, <<Tagged(s.idleTag, "BAD", "", "Unknown command")>>)
    ELSE IF validateState(s, l.cmd.name) # ""
    THEN Done(s, h, u, l, Bad(l.cmd, validateState(s, l.cmd.name)))
    ELSE handlers(s, h, u, l, o, free)

handleCommand(s, h, u, l, o, free) ==
    IF l.cmd.name \notin HandlerNames
    THEN Done(s, h, u, l, Bad(l.cmd, "Unknown command"))
    ELSE IF validateState(s, l.cmd.name) # ""
    THEN Done(s, h, u, l, Bad(l.cmd, validateState(s, l.cmd.name)))
    ELSE handlers(s, h, u, l, o, free)

\* --------------------------------------------------------------- the cache
\* The CacheManager of the process and the api-client methods that read and
\* write through it.  A cache key is the string cacheKey builds, held as the
\* sequence of its characters; a cached value is "current" while it is the
\* answer the upstream gives now and "stale" once a write has changed that
\* answer upstream.  The TTL of an entry is the action Expire.
Undefined == "undefined"     \* get() found nothing

RECURSIVE JoinWith(_, _)
JoinWith(parts, sep) ==      \* parts.join(sep)
    IF parts = <<>> THEN <<>>
    ELSE IF Len(parts) = 1 THEN parts[1]
    ELSE parts[1] \o sep \o JoinWith(Tail(parts), sep)

cacheKey(parts) == JoinWith(parts, <<":">>)

RECURSIVE StringOf(_)
StringOf(n) ==               \* String(n), n >= 0
    LET d == <<"0", "1", "2", "3", "4", "5", "6", "7", "8", "9">>
    IN IF n < 10 THEN <<d[n + 1]>> ELSE StringOf(n \div 10) \o <<d[(n % 10) + 1]>>

\* The senders, folders, messages and list options of the universe.  UIDs have
\* the same number of digits, so Array.sort (which compares strings) and the
\* numeric order agree.
CSender  == <<"s">>
CInbox   == <<"I">>
CTrash   == <<"T">>
CFolders == {CInbox, CTrash}
CUids    == {10}               \* the messages, all of them in CInbox
FUid     == <<"U", "I", "D">>
FFlags   == <<"F", "L", "A", "G", "S">>
NoOptions     == [uids |-> <<>>, fields |-> <<>>, limit |-> 0]
SelectOptions == [uids |-> <<>>, fields |-> <<FUid>>, limit |-> 10000]
Options  == {NoOptions, SelectOptions}

\* listMessages: the cache key of a folder's list under the options.
ListKey(senderId, folderName, options) ==
    LET u == IF options.uids # <<>>
             THEN <<<<"u", ":">> \o JoinWith([i \in 1..Len(options.uids) |->
                                   StringOf(SortAsc(Range1(options.uids))[i])], <<",">>)>>
             ELSE <<>>
        f == IF options.fields # <<>>
             THEN <<<<"f", ":">> \o JoinWith(options.fields, <<",">>)>> ELSE <<>>
        l == IF options.limit # 0 THEN <<<<"l", ":">> \o StringOf(options.limit)>> ELSE <<>>
        queryParts == u \o f \o l
    IN IF queryParts # <<>>
       THEN cacheKey(<<<<"m","e","s","s","a","g","e","s">>, senderId, folderName,
                       JoinWith(queryParts, <<"|">>)>>)
       ELSE cacheKey(<<<<"m","e","s","s","a","g","e","s">>, senderId, folderName>>)

StatusKey(senderId, folderName) ==
    cacheKey(<<<<"s","t","a","t","u","s">>, senderId, folderName>>)
MessageKey(senderId, folderName, uid) ==
    cacheKey(<<<<"m","e","s","s","a","g","e">>, senderId, folderName, StringOf(uid)>>)
BodyKey(senderId, folderName, uid) ==
    cacheKey(<<<<"b","o","d","y">>, senderId, folderName, StringOf(uid)>>)
FoldersKey(senderId) ==
    cacheKey(<<<<"f","o","l","d","e","r","s">>, senderId>>)

MemoryKeys ==
    {StatusKey(CSender, f) : f \in CFolders}
      \cup {ListKey(CSender, f, q) : f \in CFolders, q \in Options}
      \cup {MessageKey(CSender, CInbox, n) : n \in CUids}
      \cup {FoldersKey(CSender)}
PersistentKeys == {BodyKey(CSender, CInbox, n) : n \in CUids}
Keys == MemoryKeys \cup PersistentKeys

\* new RegExp(pattern).test(key) for the patterns the CacheManager builds:
\* "^" + text + "$" (end) or "^" + text; in text a "." matches any character.
RegexTest(text, end, key) ==
    /\ Len(key) >= Len(text)
    /\ end => Len(key) = Len(text)
    /\ \A i \in 1..Len(text) : text[i] = "." \/ text[i] = key[i]

\* key LIKE prefix || '%'; in the prefix a "_" matches any character.
LikeTest(prefix, key) ==
    /\ Len(key) >= Len(prefix)
    /\ \A i \in 1..Len(prefix) : prefix[i] = "_" \/ prefix[i] = key[i]

\* LruCache and SqliteCache as maps from key to value (the order the LruCache
\* keeps its entries in plays no part in a get, a delete or a deletePattern).
EmptyMap(K) == [k \in K |-> Undefined]
MapSet(m, key, value) == IF key \in DOMAIN m THEN [m EXCEPT ![key] = value] ELSE m
MapDelete(m, key) == IF key \in DOMAIN m THEN [m EXCEPT ![key] = Undefined] ELSE m
LruDeletePattern(m, text, end) ==
    [k \in DOMAIN m |-> IF RegexTest(text, end, k) THEN Undefined ELSE m[k]]
SqlDeletePattern(m, prefix) ==
    [k \in DOMAIN m |-> IF LikeTest(prefix, k) THEN Undefined ELSE m[k]]

NewCache == [memory |-> EmptyMap(MemoryKeys), persistent |-> EmptyMap(PersistentKeys)]

invalidateFolder(c, senderId, folderName) ==
    LET folderKey == senderId \o <<":">> \o folderName
        m1 == LruDeletePattern(c.memory, <<"s","t","a","t","u","s",":">> \o folderKey, TRUE)
        m2 == LruDeletePattern(m1, <<"m","e","s","s","a","g","e","s",":">> \o folderKey, TRUE)
        m3 == LruDeletePattern(m2, <<"m","e","s","s","a","g","e",":">> \o folderKey \o <<":">>,
                               FALSE)
    IN [memory |-> MapDelete(m3, FoldersKey(senderId)),
        persistent |-> SqlDeletePattern(c.persistent,
                                        <<"b","o","d","y",":">> \o folderKey \o <<":">>)]

\* The cache key of a sender is built from its email address.
SenderKey(email) == cacheKey(<<<<"s","e","n","d","e","r">>, email>>)

invalidateSender(c, senderId) ==
    LET m1 == LruDeletePattern(c.memory, <<"f","o","l","d","e","r","s",":">> \o senderId, TRUE)
        m2 == LruDeletePattern(m1, <<"s","t","a","t","u","s",":">> \o senderId \o <<":">>,
                               FALSE)
        m3 == LruDeletePattern(m2, <<"m","e","s","s","a","g","e","s",":">> \o senderId
                                     \o <<":">>, FALSE)
        m4 == LruDeletePattern(m3, <<"m","e","s","s","a","g","e",":">> \o senderId
                                     \o <<":">>, FALSE)
        m5 == LruDeletePattern(m4, <<"s","e","n","d","e","r",":">>, FALSE)
    IN [memory |-> m5,
        persistent |-> SqlDeletePattern(c.persistent,
                                        <<"b","o","d","y",":">> \o senderId \o <<":">>)]

invalidateMessage(c, senderId, folderName, uid) ==
    [memory |-> MapDelete(MapDelete(MapDelete(c.memory,
                    MessageKey(senderId, folderName, uid)),
                    ListKey(senderId, folderName, NoOptions)),
                    StatusKey(senderId, folderName)),
     persistent |-> MapDelete(c.persistent, BodyKey(senderId, folderName, uid))]

\* The cached reads of the api client: the cache is looked up first; on a miss
\* the request goes upstream ("ok": answered, "fail": not) and the answer is
\* stored.  tier is "memory" or "persistent".
NoCev == [call |-> "", key |-> <<>>, hit |-> FALSE, val |-> Undefined, ok |-> FALSE]

CachedRead(c, call, key, tier, o) ==
    IF c[tier][key] # Undefined
    THEN [cache |-> c,
          cev |-> [call |-> call, key |-> key, hit |-> TRUE, val |-> c[tier][key],
                   ok |-> TRUE]]
    ELSE IF o = "ok"
    THEN [cache |-> [c EXCEPT ![tier] = MapSet(@, key, "current")],
          cev |-> [call |-> call, key |-> key, hit |-> FALSE, val |-> "current",
                   ok |-> TRUE]]
    ELSE [cache |-> c, cev |-> [NoCev EXCEPT !.call = call, !.key = key]]

ApiListFolders(c, senderId, o) ==
    CachedRead(c, "listFolders", FoldersKey(senderId), "memory", o)
ApiGetFolderStatus(c, senderId, folderName, o) ==
    CachedRead(c, "getFolderStatus", StatusKey(senderId, folderName), "memory", o)
ApiListMessages(c, senderId, folderName, options, o) ==
    CachedRead(c, "listMessages", ListKey(senderId, folderName, options), "memory", o)
ApiGetMessage(c, senderId, uid, folderName, o) ==
    CachedRead(c, "getMessage", MessageKey(senderId, folderName, uid), "memory", o)
ApiGetMessageBody(c, senderId, uid, folderName, o) ==
    CachedRead(c, "getMessageBody", BodyKey(senderId, folderName, uid), "persistent", o)

\* What a change upstream changes of the upstream's answers.
Lists(senderId, folderName) == {ListKey(senderId, folderName, q) : q \in Options}
Counts(senderId, folderName) ==
    {StatusKey(senderId, folderName)} \cup Lists(senderId, folderName)
OfMessage(senderId, folderName, uid) ==
    {MessageKey(senderId, folderName, uid), BodyKey(senderId, folderName, uid)}
OfFolder(senderId, folderName) ==
    Counts(senderId, folderName)
      \cup UNION {OfMessage(senderId, folderName, n) : n \in CUids}

\* The writes of the api client: the request, then the invalidation.  A is the
\* set of answers the write changes upstream, c1 the cache after it.
Stale(m, A) ==
    [k \in DOMAIN m |-> IF k \in A /\ m[k] # Undefined THEN "stale" ELSE m[k]]

Written(c, call, A, c1, o) ==
    IF o = "ok"
    THEN [cache |-> [memory |-> Stale(c1.memory, A), persistent |-> Stale(c1.persistent, A)],
          cev |-> [NoCev EXCEPT !.call = call, !.ok = TRUE]]
    ELSE [cache |-> c, cev |-> [NoCev EXCEPT !.call = call]]

\* A flag change shows in the folder's counts (unseen), in the lists that carry
\* flags and in the message.
ApiUpdateFlags(c, senderId, uid, folderName, o) ==
    Written(c, "updateFlags",
            {StatusKey(senderId, folderName), ListKey(senderId, folderName, NoOptions),
             MessageKey(senderId, folderName, uid)},
            [c EXCEPT !.memory = MapDelete(MapDelete(@,
                                    MessageKey(senderId, folderName, uid)),
                                    ListKey(senderId, folderName, NoOptions))], o)

ApiCopyMessage(c, senderId, uid, sourceFolder, targetFolder, o) ==
    Written(c, "copyMessage", Counts(senderId, targetFolder),
            invalidateFolder(c, senderId, targetFolder), o)

ApiMoveMessage(c, senderId, uid, sourceFolder, targetFolder, o) ==
    Written(c, "moveMessage",
            Counts(senderId, sourceFolder) \cup Counts(senderId, targetFolder)
              \cup OfMessage(senderId, sourceFolder, uid),
            invalidateFolder(invalidateFolder(c, senderId, sourceFolder),
                             senderId, targetFolder), o)

ApiDeleteMessage(c, senderId, uid, folderName, o) ==
    LET c1 == invalidateMessage(c, senderId, folderName, uid)
    IN Written(c, "deleteMessage",
               Counts(senderId, folderName) \cup OfMessage(senderId, folderName, uid),
               [c1 EXCEPT !.memory = MapDelete(MapDelete(@,
                                        ListKey(senderId, folderName, NoOptions)),
                                        StatusKey(senderId, folderName))], o)

ApiAppendMessage(c, senderId, folderName, o) ==
    Written(c, "appendMessage", Counts(senderId, folderName),
            invalidateFolder(c, senderId, folderName), o)

ApiCreateFolder(c, senderId, folderName, o) ==
    Written(c, "createFolder", {FoldersKey(senderId)},
            [c EXCEPT !.memory = MapDelete(@, FoldersKey(senderId))], o)

\* Looks the folder up by name with listFolders (cached), then deletes it.
ApiDeleteFolder(c, senderId, folderName, o) ==
    LET r == ApiListFolders(c, senderId, o)
    IN IF ~r.cev.ok THEN [r EXCEPT !.cev = [NoCev EXCEPT !.call = "deleteFolder"]]
       ELSE Written(r.cache, "deleteFolder",
                    {FoldersKey(senderId)} \cup OfFolder(senderId, folderName),
                    invalidateFolder([r.cache EXCEPT !.memory =
                                         MapDelete(@, FoldersKey(senderId))],
                                     senderId, folderName), o)

\* ---------------------------------------------------------------- the framer
\* The data listener byte by byte: buffer, pendingLiteral and the literal
\* timers of one connection.  A byte is "x" (any character of a command or of
\* a payload), "{", "}", a digit, " ", CR or LF.  handleCommand is the
\* dispatcher of Spec; here the listener records what it hands to it.  No line
\* of this alphabet is DONE.
MAX_LINE_SIZE == 8        \* 64 * 1024 in the source
MAX_LITERAL_SIZE == 2     \* 50 * 1024 * 1024 in the source
MaxData == 8              \* bytes of one data event
MaxPieces == 3            \* command lines, payloads and CRLFs the client sends

CR == "CR"
LF == "LF"
CRLF == <<CR, LF>>
Digits == <<"0", "1", "2", "3", "4", "5", "6", "7", "8", "9">>
IsDigit(b) == \E i \in 1..Len(Digits) : Digits[i] = b
DigitVal(b) == (CHOOSE i \in 1..Len(Digits) : Digits[i] = b) - 1
IsSpace(b) == b \in {CR, LF, " "}

\* Buffer.subarray(start, end) and Buffer.subarray(start)
subarray(buf, start, end) ==
    SubSeq(buf, start + 1, IF end < Len(buf) THEN end ELSE Len(buf))
subarrayFrom(buf, start) == SubSeq(buf, start + 1, Len(buf))

\* buffer.indexOf("\r\n"), -1 if absent
indexOfCRLF(buf) ==
    LET P == {i \in 0..(Len(buf) - 2) : buf[i + 1] = CR /\ buf[i + 2] = LF}
    IN IF P = {} THEN -1 ELSE CHOOSE i \in P : \A j \in P : i <= j

RECURSIVE parseInt(_)
parseInt(q) == IF q = <<>> THEN 0
               ELSE 10 * parseInt(SubSeq(q, 1, Len(q) - 1)) + DigitVal(q[Len(q)])

\* line.match(/\{(\d+)\}\s*$/) and line.replace(/\{(\d+)\}\s*$/, "")
literalMatch(line) ==
    LET NotSp == {i \in 1..Len(line) : ~IsSpace(line[i])}
        e == IF NotSp = {} THEN 0 ELSE CHOOSE i \in NotSp : \A j \in NotSp : j <= i
        NotDg == {i \in 1..(e - 1) : ~IsDigit(line[i])}
        b == IF NotDg = {} THEN 0 ELSE CHOOSE i \in NotDg : \A j \in NotDg : j <= i
        ok == e > 0 /\ line[e] = "}" /\ b > 0 /\ line[b] = "{" /\ e - b >= 2
    IN [ok |-> ok,
        size |-> IF ok THEN parseInt(SubSeq(line, b + 1, e - 1)) ELSE 0,
        command |-> IF ok THEN SubSeq(line, 1, b - 1) ELSE line]

\* !line.trim()
IsBlank(line) == \A i \in 1..Len(line) : IsSpace(line[i])

\* if (buffer.length >= 2 && buffer[0] === 0x0d && buffer[1] === 0x0a)
StripCRLF(buf) ==
    IF Len(buf) >= 2 /\ buf[1] = CR /\ buf[2] = LF THEN subarrayFrom(buf, 2) ELSE buf

\* pendingLiteral: on FALSE is null; timeout is "start" (the timer of the
\* literal's start, whose callback clears pendingLiteral), "reset" (the timer
\* a later data event put in its place, whose callback does not) or "fired".
NoLiteral == [on |-> FALSE, command |-> <<>>, size |-> 0, collected |-> <<>>,
              timeout |-> ""]
NoData == <<"none">>

\* log: what the socket was written, what handleCommand was handed and, as a
\* ghost, every line the loop took.  leaked: timers of literals that were
\* complete at once, which nothing clears.  destroyed: a write after end().
\* inTable: sessions holds the socket.  errored, closed: the socket has
\* emitted "error", "close".  late: a timer of the connection fired after that.
NewFramer == [buffer |-> <<>>, pendingLiteral |-> NoLiteral, log |-> <<>>,
              ended |-> FALSE, destroyed |-> FALSE, leaked |-> 0,
              inTable |-> TRUE, errored |-> FALSE, closed |-> FALSE, late |-> FALSE]

TooLong == "* BAD Command line too long"
TooLarge == "* BAD Literal too large"
Ready == "+ Ready for literal data"
TimedOut == "* BAD Literal data timeout"

SocketWrite(f, text) ==
    IF f.ended \/ f.errored \/ f.closed THEN [f EXCEPT !.destroyed = TRUE]
    ELSE [f EXCEPT !.log = Append(@, [op |-> "write", text |-> text, line |-> <<>>,
                                      literalData |-> NoData])]
SocketEnd(f) ==
    IF f.ended THEN f
    ELSE [f EXCEPT !.ended = TRUE,
                   !.log = Append(@, [op |-> "end", text |-> "", line |-> <<>>,
                                      literalData |-> NoData])]
Took(f, line) ==
    [f EXCEPT !.log = Append(@, [op |-> "line", text |-> "", line |-> line,
                                 literalData |-> NoData])]
\* parseCommand(line), command.literalData = literalData, handleCommand(...)
Handle(f, line, literalData) ==
    [f EXCEPT !.log = Append(@, [op |-> "dispatch", text |-> "", line |-> line,
                                 literalData |-> literalData])]

\* if (size > MAX_LITERAL_SIZE)
LiteralTooLarge(size) == size > MAX_LITERAL_SIZE

\* while ((lineEnd = buffer.indexOf("\r\n")) !== -1) { ... }
RECURSIVE ProcessLines(_)
ProcessLines(f) ==
    LET lineEnd == indexOfCRLF(f.buffer)
        line == subarray(f.buffer, 0, lineEnd)
        rest == subarrayFrom(f.buffer, lineEnd + 2)
        g == Took([f EXCEPT !.buffer = rest], line)
        m == literalMatch(line)
        chunk == subarray(rest, 0, m.size)
        after == subarrayFrom(rest, Len(chunk))
    IN IF lineEnd = -1 THEN f
       ELSE IF IsBlank(line) THEN ProcessLines(g)
       ELSE IF m.ok
       THEN IF LiteralTooLarge(m.size) THEN ProcessLines(SocketWrite(g, TooLarge))
            ELSE IF Len(rest) > 0 /\ Len(chunk) >= m.size
            THEN ProcessLines(Handle([SocketWrite(g, Ready) EXCEPT
                                          !.buffer = StripCRLF(after),
                                          !.leaked = @ + 1],
                                     m.command, chunk))
            ELSE ProcessLines([SocketWrite(g, Ready) EXCEPT
                                   !.buffer = IF Len(rest) > 0 THEN after ELSE rest,
                                   !.pendingLiteral =
                                       [on |-> TRUE, command |-> m.command,
                                        size |-> m.size,
                                        collected |-> IF Len(rest) > 0 THEN chunk ELSE <<>>,
                                        timeout |-> "start"]])
       ELSE ProcessLines(Handle(g, line, NoData))

\* socket.on("data", async (data) => { ... })
onSocketData(f, data) ==
    LET buf == f.buffer \o data
        p == f.pendingLiteral
        remaining == p.size - Len(p.collected)
        chunk == subarray(buf, 0, remaining)
        collected == p.collected \o chunk
        after == subarrayFrom(buf, Len(chunk))
    IN IF Len(buf) > MAX_LINE_SIZE /\ ~p.on
       THEN SocketEnd(SocketWrite([f EXCEPT !.buffer = buf], TooLong))
       ELSE IF p.on
       THEN IF Len(collected) >= p.size
            THEN Handle([f EXCEPT !.buffer = StripCRLF(after),
                                  !.pendingLiteral = NoLiteral],
                        p.command, collected)
            ELSE [f EXCEPT !.buffer = after,
                           !.pendingLiteral = [p EXCEPT !.collected = collected,
                                                        !.timeout = "reset"]]
       ELSE ProcessLines([f EXCEPT !.buffer = buf])

\* The callback of the timer set when a literal starts.
onStartTimeout(f) ==
    SocketEnd(SocketWrite([f EXCEPT !.pendingLiteral = NoLiteral], TimedOut))

\* The callback of the timer set in its place by a later data event.
onResetTimeout(f) ==
    SocketEnd(SocketWrite([f EXCEPT !.pendingLiteral.timeout = "fired"], TimedOut))

\* socket.on("close"): the idle timer of the session is cleared (the session
\* of this connection has none), the socket leaves the table.
onSocketClose(f) == [f EXCEPT !.inTable = FALSE, !.closed = TRUE]

\* socket.on("error")
onSocketError(f) == [f EXCEPT !.inTable = FALSE, !.errored = TRUE]

\* A literal timer of the connection is set and has not fired.
TimerPending(f) ==
    \/ f.pendingLiteral.on /\ f.pendingLiteral.timeout \in {"start", "reset"}
    \/ f.leaked > 0

\* What a client sends: command lines, literals with their payload, CRLFs.
Xs(n) == [i \in 1..n |-> "x"]
Announce(n) == <<"x", "{", Digits[n + 1], "}">> \o CRLF
Pieces ==
    {<<"x">> \o CRLF,                                  \* a command line
     Announce(1) \o <<"x">>,                           \* a literal of one byte
     Announce(MAX_LITERAL_SIZE) \o SubSeq(CRLF \o Xs(MAX_LITERAL_SIZE), 1, MAX_LITERAL_SIZE),
     CRLF,                                             \* the CRLF after a payload
     Announce(MAX_LITERAL_SIZE + 1),                   \* a literal over the limit
     Xs(MAX_LINE_SIZE + 1) \o CRLF}                    \* a line over the limit

RECURSIVE Concat(_)
Concat(qs) == IF qs = <<>> THEN <<>> ELSE Head(qs) \o Concat(Tail(qs))

Inputs == {Concat(qs) : qs \in UNION {[1..n -> Pieces] : n \in 1..MaxPieces}}

NoWire == [input |-> <<>>, rest |-> <<>>]

\* ------------------------------------------------------- the api key caches
\* ImapApiClient.apiKeyCache and TransmitClient.apiKeyCache: per key an entry
\* {value, expires}, or none.  now is Date.now() in units of the scaled TTL
\* steps; last is the outcome of the latest validateApiKey per client and key.
cacheTtl == 2
MaxNow == 3
ApiKeys == {GoodKey, BadKey}
Clients == {"imap", "smtp"}
NoEntry == [set |-> FALSE, value |-> FALSE, expires |-> 0]
NoKev == [op |-> "init", client |-> "", key |-> NoKey, upstream |-> FALSE,
          result |-> FALSE, prev |-> "", fresh |-> FALSE]
NewKeys == [entry |-> [c \in Clients |-> [k \in ApiKeys |-> NoEntry]],
            last |-> [c \in Clients |-> [k \in ApiKeys |-> "none"]],
            now |-> 0, ev |-> NoKev]

\* What the request to /api/workspaces gives: "ok" the upstream answers (and
\* accepts the keys it knows), "error" the call throws or times out on every
\* retry.
KeyOutcomes == {"ok", "error"}

\* validateApiKey of either client; cacheRejected: the client stores the
\* upstream's answer whatever it is.
validateWith(ks, client, apiKey, o, cacheRejected) ==
    LET cached == ks.entry[client][apiKey]
        Finish(entry, upstream, result) ==
            [ks EXCEPT !.entry[client][apiKey] = entry,
                       !.last[client][apiKey] = IF result THEN "ok" ELSE "failed",
                       !.ev = [op |-> "validate", client |-> client, key |-> apiKey,
                               upstream |-> upstream, result |-> result,
                               prev |-> ks.last[client][apiKey],
                               fresh |-> cached.set /\ cached.expires > ks.now]]
    IN IF cached.set /\ cached.expires > ks.now
       THEN Finish(cached, FALSE, cached.value)
       ELSE IF o = "error" THEN Finish(cached, TRUE, FALSE)
       ELSE LET valid == apiKey = GoodKey
            IN IF valid \/ cacheRejected
               THEN Finish([set |-> TRUE, value |-> valid, expires |-> ks.now + cacheTtl],
                           TRUE, valid)
               ELSE Finish(cached, TRUE, FALSE)

\* ImapApiClient.validateApiKey: if (result) apiKeyCache.set(..)
validateApiKeyImap(ks, apiKey, o) == validateWith(ks, "imap", apiKey, o, FALSE)
\* TransmitClient.validateApiKey: apiKeyCache.set(apiKey, {value: valid, ..})
validateApiKeySmtp(ks, apiKey, o) == validateWith(ks, "smtp", apiKey, o, TRUE)

\* ----------------------------------------------------------- the LruCache
\* LruCache: the entries in the insertion order of its Map (the first is the
\* least recently used), each with its accounted size and whether its TTL has
\* passed, and currentMemory.  Beside them: op, key, got and n are the last
\* call, its key, whether it returned a value (get, has, delete) and the number
\* it returned (deletePattern, prune); tick counts the sets and the gets that
\* hit, and the field at of an entry is the tick of the last one for its key.
maxEntries == 2
maxMemory == 3
MaxUses == 5                      \* sets and hitting gets of one cache
LruKeys == {"k1", "k2", "k3"}
Sizes == 1..(maxMemory + 1)       \* estimateSize(value) of the values stored
NewLru == [cache |-> <<>>, currentMemory |-> 0, op |-> "init", key |-> "", got |-> FALSE,
           n |-> 0, tick |-> 0]

LruHas(c, key) == \E i \in 1..Len(c.cache) : c.cache[i].key = key
LruEntry(c, key) == c.cache[CHOOSE i \in 1..Len(c.cache) : c.cache[i].key = key]

\* A delete that forgets the accounting: C40 tells the two apart.
LruDelete_KeepsMemory(c, key) ==
    IF ~LruHas(c, key) THEN c
    ELSE [c EXCEPT !.cache = SelectSeq(@, LAMBDA e : e.key # key)]

LruDelete(c, key) ==
    IF ~LruHas(c, key) THEN c
    ELSE [c EXCEPT !.cache = SelectSeq(@, LAMBDA e : e.key # key),
                   !.currentMemory = @ - LruEntry(c, key).size]

evictOldest(c) == IF c.cache = <<>> THEN c ELSE LruDelete(c, c.cache[1].key)

RECURSIVE EvictWhile(_, _)
EvictWhile(c, size) ==
    IF (Len(c.cache) >= maxEntries \/ c.currentMemory + size > maxMemory)
          /\ Len(c.cache) > 0
    THEN EvictWhile(evictOldest(c), size)
    ELSE c

Called(c, op, key, got, n) == [c EXCEPT !.op = op, !.key = key, !.got = got, !.n = n]

LruSet(c, key, size) ==
    LET c1 == EvictWhile(LruDelete(c, key), size)
    IN Called([c1 EXCEPT !.cache = Append(@, [key |-> key, size |-> size,
                                              expired |-> FALSE, at |-> c.tick + 1]),
                         !.currentMemory = @ + size,
                         !.tick = @ + 1],
              "set", key, FALSE, 0)

\* A get that returns the value and leaves the entry where it is in the Map:
\* C37 tells the two apart.
LruGet_InPlace(c, key) ==
    IF ~LruHas(c, key) THEN Called(c, "get", key, FALSE, 0)
    ELSE IF LruEntry(c, key).expired THEN Called(LruDelete(c, key), "get", key, FALSE, 0)
    ELSE Called([c EXCEPT !.cache = [i \in 1..Len(@) |->
                                       IF @[i].key = key THEN [@[i] EXCEPT !.at = c.tick + 1]
                                       ELSE @[i]],
                          !.tick = @ + 1],
                "get", key, TRUE, 0)

LruGet(c, key) ==
    IF ~LruHas(c, key) THEN Called(c, "get", key, FALSE, 0)
    ELSE IF LruEntry(c, key).expired THEN Called(LruDelete(c, key), "get", key, FALSE, 0)
    ELSE Called([c EXCEPT !.cache = Append(SelectSeq(@, LAMBDA e : e.key # key),
                                           [LruEntry(c, key) EXCEPT !.at = c.tick + 1]),
                          !.tick = @ + 1],
                "get", key, TRUE, 0)

\* has(key): an expired entry is deleted; the Map order stays.
LruHasKey(c, key) ==
    IF ~LruHas(c, key) THEN Called(c, "has", key, FALSE, 0)
    ELSE IF LruEntry(c, key).expired THEN Called(LruDelete(c, key), "has", key, FALSE, 0)
    ELSE Called(c, "has", key, TRUE, 0)

\* for (const key of this.cache.keys()) if (..) { this.delete(key); n++ }, for
\* the entries es the test picks
RECURSIVE DeleteEach(_, _)
DeleteEach(c, es) ==
    IF es = <<>> THEN c ELSE DeleteEach(LruDelete(c, Head(es).key), Tail(es))

\* deletePattern(pattern): matched is the set of keys the regex matches.
deletePattern(c, matched) ==
    LET es == SelectSeq(c.cache, LAMBDA e : e.key \in matched)
    IN Called(DeleteEach(c, es), "deletePattern", "", FALSE, Len(es))

prune(c) ==
    LET es == SelectSeq(c.cache, LAMBDA e : e.expired)
    IN Called(DeleteEach(c, es), "prune", "", FALSE, Len(es))

clear(c) == Called([c EXCEPT !.cache = <<>>, !.currentMemory = 0], "clear", "", FALSE, 0)

stats(c) == [entries |-> Len(c.cache), memory |-> c.currentMemory,
             maxEntries |-> maxEntries, maxMemory |-> maxMemory]

\* ------------------------------------------------------------ withRetry
\* What an invocation of the operation gives: a value, or an error thrown: a
\* SmtpProxyError with its retryable flag, an Error with its message, or a
\* value that is no Error.
Success == [ok |-> TRUE, cls |-> "", retryable |-> FALSE, msg |-> ""]
Errors ==
    {[ok |-> FALSE, cls |-> "SmtpProxyError", retryable |-> TRUE, msg |-> "rate limited"],
     [ok |-> FALSE, cls |-> "SmtpProxyError", retryable |-> FALSE, msg |-> "timeout"],
     [ok |-> FALSE, cls |-> "Error", retryable |-> FALSE, msg |-> "timeout"],
     [ok |-> FALSE, cls |-> "Error", retryable |-> FALSE, msg |-> "bad request"],
     [ok |-> FALSE, cls |-> "value", retryable |-> FALSE, msg |-> "timeout"]}
RetryableMessages == {"timeout", "econnreset", "econnrefused", "socket hang up", "network",
                      "503", "502", "429"}

isRetryableError(error) ==
    IF error.cls = "SmtpProxyError" THEN error.retryable
    ELSE IF error.cls = "Error" THEN error.msg \in RetryableMessages
    ELSE FALSE

\* The options of a call: maxRetries up to MaxRetries, initialDelayMs the
\* default or one that reaches maxDelayMs at the second attempt; Math.random()
\* * 100 at its ends (in whole milliseconds).
MaxRetries == 3
maxDelayMs == 10000
InitialDelays == {500, 6000}
Jitters == {0, 99}
Min(a, b) == IF a <= b THEN a ELSE b

\* pc: where the call is (idle, call: awaiting operation(), sleep: awaiting
\* sleep(delay), returned, thrown); attempt: the loop variable; outcomes: what
\* the invocations of the operation gave, in order; result: the invocation
\* whose value was returned; thrown: the error thrown to the caller.
NewRetry == [pc |-> "idle", maxRetries |-> 0, initialDelayMs |-> 0, attempt |-> 0,
             outcomes |-> <<>>, result |-> 0, thrown |-> Success, delay |-> 0]

\* A withRetry that goes on after an error that is not retryable: C38 tells
\* the two apart.
withRetry_RetriesEveryError(r, outcome, jitter) ==
    LET r1 == [r EXCEPT !.outcomes = Append(@, outcome)]
        baseDelay == r.initialDelayMs * (2 ^ r.attempt)
    IN IF outcome.ok THEN [r1 EXCEPT !.pc = "returned", !.result = Len(r1.outcomes)]
       ELSE IF r.attempt = r.maxRetries
       THEN [r1 EXCEPT !.pc = "thrown", !.thrown = outcome]
       ELSE [r1 EXCEPT !.pc = "sleep", !.delay = Min(baseDelay + jitter, maxDelayMs)]

\* withRetry, one turn of its loop: operation() has settled with outcome.
withRetry(r, outcome, jitter) ==
    LET r1 == [r EXCEPT !.outcomes = Append(@, outcome)]
        baseDelay == r.initialDelayMs * (2 ^ r.attempt)
    IN IF outcome.ok THEN [r1 EXCEPT !.pc = "returned", !.result = Len(r1.outcomes)]
       ELSE IF r.attempt = r.maxRetries \/ ~isRetryableError(outcome)
       THEN [r1 EXCEPT !.pc = "thrown", !.thrown = outcome]
       ELSE [r1 EXCEPT !.pc = "sleep", !.delay = Min(baseDelay + jitter, maxDelayMs)]

\* ------------------------------------------------------------- SMTP AUTH
\* The SMTP session: apiKey once authenticated; at, pass, res: the validation
\* in flight; call: the upstream call the last step issued; reply: what the
\* callback was given.
NewSmtp == [apiKey |-> NoKey, at |-> "", pass |-> NoKey, res |-> FALSE, call |-> "",
            reply |-> ""]

\* A handler that sends every password upstream and looks at its format
\* afterwards: C18 tells the two apart.
onAuth_ValidateFirst(ss, password, o) ==
    [ss EXCEPT !.at = "validateApiKey", !.pass = password, !.call = "validateApiKey",
               !.res = isValidApiKeyFormat(password) /\ Accepted(password, o),
               !.reply = ""]

\* onAuth up to apiClient.validateApiKey(apiKey).
onAuth(ss, password, o) ==
    IF ~isValidApiKeyFormat(password)
    THEN [ss EXCEPT !.at = "", !.pass = password, !.call = "",
                    !.reply = "Invalid API key format"]
    ELSE [ss EXCEPT !.at = "validateApiKey", !.pass = password, !.call = "validateApiKey",
                    !.res = Accepted(password, o), !.reply = ""]

\* .then((valid) => ...)
onAuthThen(ss) ==
    IF ss.res THEN [ss EXCEPT !.at = "", !.call = "", !.apiKey = ss.pass, !.reply = "ok"]
    ELSE [ss EXCEPT !.at = "", !.call = "", !.reply = "Invalid API key"]

\* ------------------------------------------------------------ the listener
\* createImapServer's connection callback: the session, the buffer, the data
\* listener.  I is the set of listener invocations that may be active at once,
\* L the lines the client sends.
Refs(s, iv) == {s.selectedFolder} \cup {iv[j].folder : j \in DOMAIN iv}

FreeObj == CHOOSE f \in Objs : f \notin Refs(session, inv)

IdleLines(q) == Cardinality({i \in 1..Len(q) : q[i].name = "IDLE"})

UsedTags ==
    {buffer[k].tag : k \in 1..Len(buffer)} \cup {inv[j].cmd.tag : j \in DOMAIN inv}
        \cup (IF session.idling THEN {session.idleTag} ELSE {})

\* The lines of one data event, tagged.
Chunks(L) ==
    LET fresh == SortAsc(Tags \ UsedTags)
    IN {[k \in 1..Len(q) |-> IF q[k].raw = "cmd" THEN [q[k] EXCEPT !.tag = fresh[k]]
                             ELSE q[k]] :
          q \in UNION {[1..n -> L] : n \in 1..MaxChunk}}

\* The state after invocation i has run a handler to its next await or end:
\* the responses written, socket.end() after a LOGOUT, the untagged BAD of the
\* catch.  Folder objects nothing refers to any more are dropped.
Settle(i, out, op) ==
    LET finished == out.k # "await"
        li == IF finished THEN [FreeInv EXCEPT !.pc = "loop"]
              ELSE [out.l EXCEPT !.pc = "await"]
        inv1 == [j \in DOMAIN inv |->
                   IF j = i THEN li
                   ELSE IF finished THEN [inv[j] EXCEPT !.older = @ \ {i}]
                   ELSE inv[j]]
    IN /\ session' = out.s
       /\ heap' = [f \in Objs |-> IF f \in Refs(out.s, inv1) THEN out.h[f] ELSE DeadObj]
       /\ up' = out.u
       /\ inv' = inv1
       /\ cur' = IF out.k = "await" /\ ~out.l.sync THEN 0 ELSE i
       /\ wrote' = CASE out.k = "done"  -> out.direct \o out.out
                     [] out.k = "throw" -> <<Untagged("BAD", 0, 0)>>
                     [] OTHER           -> out.direct
       /\ ret' = IF out.k = "done" THEN out.out ELSE <<>>
       /\ ended' = (ended \/ (out.k = "done" /\ out.s.state = "logout"))
       /\ ev' = [op |-> op, inv |-> i, cmd |-> out.l.cmd, k |-> out.k,
                 state0 |-> session.state, call |-> out.call, key |-> out.key,
                 err |-> out.err, x |-> out.x, older |-> out.l.older,
                 did |-> out.l.did, peek |-> out.l.peek]
       /\ UNCHANGED aux

Quiet(op, i) ==
    /\ wrote' = <<>>
    /\ ret' = <<>>
    /\ ev' = [NoEv EXCEPT !.op = op, !.inv = i, !.state0 = session.state]
    /\ UNCHANGED aux

\* A data event: the listener is called with the bytes, here whole lines.  T
\* bounds the IDLE timers the session may have armed.
OnDataT(I, L, T) ==
    /\ cur = 0
    /\ \E i \in I :
         /\ inv[i].pc = "free"
         /\ \A j \in I : j < i => inv[j].pc # "free"
         /\ \E chunk \in Chunks(L) :
              /\ session.timers + IdleLines(buffer \o chunk) <= T
              /\ buffer' = buffer \o chunk
              /\ inv' = [inv EXCEPT ![i] = [FreeInv EXCEPT !.pc = "loop"]]
              /\ cur' = i
              /\ Quiet("data", i)
    /\ UNCHANGED <<session, heap, up, ended>>

OnData(I, L) == OnDataT(I, L, MaxTimers)

\* while (buffer has a line): none is left, the invocation returns.
Return(I) ==
    \E i \in I :
      /\ cur = i /\ inv[i].pc = "loop" /\ buffer = <<>>
      /\ inv' = [inv EXCEPT ![i] = FreeInv]
      /\ cur' = 0
      /\ Quiet("return", i)
      /\ UNCHANGED <<session, heap, buffer, up, ended>>

\* The line DONE: ends an IDLE, else ignored.
IdleDone(I) ==
    \E i \in I :
      /\ cur = i /\ inv[i].pc = "loop" /\ buffer # <<>> /\ Head(buffer).raw = "done"
      /\ buffer' = Tail(buffer)
      /\ session' = IF session.idling
                    THEN [session EXCEPT !.idling = FALSE, !.idleTimeout = FALSE,
                             !.timers = IF session.idleTimeout THEN @ - 1 ELSE @]
                    ELSE session
      /\ wrote' = IF session.idling
                  THEN <<Tagged(session.idleTag, "OK", "", "IDLE terminated")>> ELSE <<>>
      /\ ret' = <<>>
      /\ ev' = [NoEv EXCEPT !.op = "done", !.inv = i, !.state0 = session.state]
      /\ UNCHANGED <<heap, inv, cur, up, ended, aux>>

\* parseCommand throws: the catch writes an untagged BAD.
ParseError(I) ==
    \E i \in I :
      /\ cur = i /\ inv[i].pc = "loop" /\ buffer # <<>> /\ Head(buffer).raw = "garbage"
      /\ buffer' = Tail(buffer)
      /\ wrote' = <<Untagged("BAD", 0, 0)>>
      /\ ret' = <<>>
      /\ ev' = [NoEv EXCEPT !.op = "parse", !.inv = i, !.k = "throw",
                            !.state0 = session.state, !.err = "Invalid command format"]
      /\ UNCHANGED <<session, heap, inv, cur, up, ended, aux>>

\* await handleCommand(session, command, ...): up to the handler's first await.
Dispatch(I, O) ==
    \E i \in I, o \in O :
      /\ cur = i /\ inv[i].pc = "loop" /\ buffer # <<>> /\ Head(buffer).raw = "cmd"
      /\ buffer' = Tail(buffer)
      /\ Settle(i, handleCommand(session, heap, up,
                                 [FreeInv EXCEPT !.pc = "loop", !.cmd = Head(buffer),
                                    !.at = "start",
                                    !.older = {j \in I \ {i} : inv[j].pc = "await"}],
                                 o, FreeObj), "dispatch")

\* The upstream call invocation i awaits has settled: the handler goes on.
Resume(I, O) ==
    \E i \in I, o \in O :
      /\ inv[i].pc = "await"
      /\ cur = IF inv[i].sync THEN i ELSE 0
      /\ Settle(i, handlers(session, heap, up, inv[i], o, FreeObj), "resume")
      /\ UNCHANGED buffer

\* The callback of IDLE's setTimeout.
TimerFires(current) ==
    /\ session' = [session EXCEPT !.timers = @ - 1, !.idling = FALSE,
                      !.idleTimeout = IF current THEN FALSE ELSE @]
    /\ wrote' = IF session.idling
                THEN <<Tagged(session.idleTag, "OK", "", "IDLE terminated (timeout)")>>
                ELSE <<>>
    /\ ret' = <<>>
    /\ ev' = [NoEv EXCEPT !.op = "timer", !.state0 = session.state]
    /\ UNCHANGED <<heap, buffer, inv, cur, up, ended, aux>>

\* A pending timer fires: the one session.idleTimeout refers to, or one armed
\* by an earlier IDLE that nothing refers to any more.
IdleTimeout ==
    /\ cur = 0
    /\ \E current \in BOOLEAN :
         /\ IF current THEN session.idleTimeout
            ELSE session.timers > (IF session.idleTimeout THEN 1 ELSE 0)
         /\ TimerFires(current)

NewUp == [msgs |-> UIDs, deleted |-> {}, stored |-> <<>>, listed |-> NoListed]

InitBase(I) ==
    /\ session = createSession
    /\ heap = [f \in Objs |-> DeadObj]
    /\ buffer = <<>>
    /\ inv = [i \in I |-> FreeInv]
    /\ cur = 0
    /\ ended = FALSE
    /\ wrote = <<Untagged("OK greeting", 0, 0)>>
    /\ ret = <<>>
    /\ ev = NoEv
    /\ cev = NoCev
    /\ smtp = NewSmtp
    /\ framer = NewFramer
    /\ wire = NoWire
    /\ keys = NewKeys
    /\ lru = NewLru
    /\ retry = NewRetry

InitOther(I) == InitBase(I) /\ up = NewUp

InitWith(I) == InitOther(I) /\ cache = NewCache

\* One command at a time: the client sends the next line when the listener has
\* returned.  Every command and argument shape of Lines.
Init == InitWith(Invs)

Next ==
    \/ OnData(Invs, Lines)
    \/ Return(Invs)
    \/ IdleDone(Invs)
    \/ ParseError(Invs)
    \/ Dispatch(Invs, Outcomes)
    \/ Resume(Invs, Outcomes)
    \/ IdleTimeout

Spec == Init /\ [][Next]_vars

\* Data that arrives while a handler is suspended: one more invocation of the
\* listener than Spec has, a mail client at work (it logs in, opens the inbox,
\* reads and files messages), an upstream that answers every request.
Invs2 == 1..(MaxInv + 1)

Lines2 ==
    {C0("NOOP"), CLogin(TheEmail, GoodKey), CMbox("SELECT", Inbox),
     CFetch(FALSE, SetAll, "BODY.PEEK[]"), CXfer("MOVE", TRUE, SetEx, Trash)}

InitOverlap == InitWith(Invs2)

NextOverlap ==
    \/ OnData(Invs2, Lines2)
    \/ Return(Invs2)
    \/ Dispatch(Invs2, {"ok"})
    \/ Resume(Invs2, {"ok"})

SpecOverlap == InitOverlap /\ [][NextOverlap]_vars

\* A client that idles: it logs in, opens the inbox and sends IDLE, DONE and
\* NOOP lines in any order; the session may have armed MaxIdles idle timers.
MaxIdles == 2

LinesIdle ==
    {CLogin(TheEmail, GoodKey), CMbox("SELECT", Inbox), C0("IDLE"), C0("NOOP"), DoneLine}

NextIdle ==
    \/ OnDataT(Invs, LinesIdle, MaxIdles)
    \/ Return(Invs)
    \/ IdleDone(Invs)
    \/ Dispatch(Invs, {"ok"})
    \/ Resume(Invs, {"ok"})
    \/ IdleTimeout

SpecIdle == Init /\ [][NextIdle]_vars

\* The round trip: a session of one sender appends messages to its Inbox,
\* selects it and fetches the appended message by UID; the upstream serves
\* every request.
LinesRound ==
    {CLogin(TheEmail, GoodKey), CMbox("SELECT", Inbox),
     CFetch(TRUE, SetNew, "BODY.PEEK[]")}
    \cup {CAppendData(Inbox, m) : m \in Messages}

NextRound ==
    \/ OnData(Invs, LinesRound)
    \/ Return(Invs)
    \/ Dispatch(Invs, {"ok"})
    \/ Resume(Invs, {"ok"})

SpecRound == Init /\ [][NextRound]_vars

\* A session for any sender: the login is `api`; it lists, selects by folder
\* name and by <email>/<folder>, and closes; the upstream serves every request.
LinesAny ==
    {CLogin("api", GoodKey), CMbox("SELECT", Inbox), CMbox("SELECT", <<TheEmail, "Inbox">>),
     CMbox("EXAMINE", <<TheEmail, "Inbox">>), C0("CLOSE"), CList("LIST", "*")}

NextAny ==
    \/ OnData(Invs, LinesAny)
    \/ Return(Invs)
    \/ Dispatch(Invs, {"ok"})
    \/ Resume(Invs, {"ok"})

SpecAny == Init /\ [][NextAny]_vars

\* A session sets and removes \Deleted and expunges, with the memory cache
\* of the api client in front of the list of flags; the upstream serves a
\* request or fails it.
LinesFlags ==
    {CLogin(TheEmail, GoodKey), CMbox("SELECT", Inbox),
     CStore(FALSE, SetOne, "+FLAGS"), CStore(FALSE, SetOne, "-FLAGS"),
     C0("EXPUNGE"), C0("CLOSE")}

InitFlags == InitBase(Invs) /\ cache = NewCache /\ up = [NewUp EXCEPT !.listed.on = TRUE]

\* CacheTtl.MESSAGES have passed since the list was stored.
FlagsListTtl ==
    /\ cur = 0 /\ up.listed.set
    /\ up' = [up EXCEPT !.listed = [NoListed EXCEPT !.on = TRUE]]
    /\ Quiet("ttl", 0)
    /\ UNCHANGED <<session, heap, buffer, inv, cur, ended>>

NextFlags ==
    \/ OnData(Invs, LinesFlags)
    \/ Return(Invs)
    \/ Dispatch(Invs, {"ok", "fail"})
    \/ Resume(Invs, {"ok", "fail"})
    \/ FlagsListTtl

SpecFlags == InitFlags /\ [][NextFlags]_vars

imap == <<session, heap, buffer, inv, cur, up, ended, wrote, ret, ev>>

\* Logging in: the IMAP session is sent every LOGIN and AUTHENTICATE line of
\* Lines, the SMTP session of the process is given every password.
LinesAuth == {c \in Lines : c.name \in NotAuthNames \cup {"NOOP"}}

SmtpAuth ==
    /\ smtp.at = ""
    /\ \E password \in Passwords, o \in {"ok", "fail"} : smtp' = onAuth(smtp, password, o)
    /\ UNCHANGED <<imap, store, cache, cev, framer, wire>>

SmtpAuthSettled ==
    /\ smtp.at = "validateApiKey"
    /\ smtp' = onAuthThen(smtp)
    /\ UNCHANGED <<imap, store, cache, cev, framer, wire>>

NextAuth ==
    \/ OnData(Invs, LinesAuth)
    \/ Return(Invs)
    \/ Dispatch(Invs, Outcomes)
    \/ Resume(Invs, Outcomes)
    \/ SmtpAuth
    \/ SmtpAuthSettled

SpecAuth == Init /\ [][NextAuth]_vars

\* The api client at work for the sessions of the process: any session may
\* read or write any folder of the sender at any time; entries expire.
CacheOutcomes == {"ok", "fail"}

ApiCall(r) ==
    /\ cache' = r.cache
    /\ cev' = r.cev
    /\ UNCHANGED <<imap, store, smtp, framer, wire>>

ListFoldersCall ==
    \E o \in CacheOutcomes : ApiCall(ApiListFolders(cache, CSender, o))
GetFolderStatusCall ==
    \E f \in CFolders, o \in CacheOutcomes :
      ApiCall(ApiGetFolderStatus(cache, CSender, f, o))
ListMessagesCall ==
    \E f \in CFolders, q \in Options, o \in CacheOutcomes :
      ApiCall(ApiListMessages(cache, CSender, f, q, o))
GetMessageCall ==
    \E n \in CUids, o \in CacheOutcomes :
      ApiCall(ApiGetMessage(cache, CSender, n, CInbox, o))
GetMessageBodyCall ==
    \E n \in CUids, o \in CacheOutcomes :
      ApiCall(ApiGetMessageBody(cache, CSender, n, CInbox, o))
UpdateFlagsCall ==
    \E n \in CUids, o \in CacheOutcomes :
      ApiCall(ApiUpdateFlags(cache, CSender, n, CInbox, o))
CopyMessageCall ==
    \E g \in CFolders, n \in CUids, o \in CacheOutcomes :
      ApiCall(ApiCopyMessage(cache, CSender, n, CInbox, g, o))
MoveMessageCall ==
    \E n \in CUids, o \in CacheOutcomes :
      ApiCall(ApiMoveMessage(cache, CSender, n, CInbox, CTrash, o))
DeleteMessageCall ==
    \E n \in CUids, o \in CacheOutcomes :
      ApiCall(ApiDeleteMessage(cache, CSender, n, CInbox, o))
AppendMessageCall ==
    \E f \in CFolders, o \in CacheOutcomes :
      ApiCall(ApiAppendMessage(cache, CSender, f, o))
CreateFolderCall ==
    \E f \in CFolders, o \in CacheOutcomes :
      ApiCall(ApiCreateFolder(cache, CSender, f, o))
DeleteFolderCall ==
    \E f \in CFolders, o \in CacheOutcomes :
      ApiCall(ApiDeleteFolder(cache, CSender, f, o))

\* The TTL of an entry has passed: a get deletes it, prune removes it.
Expire ==
    \E tier \in {"memory", "persistent"} :
      \E k \in DOMAIN cache[tier] :
        /\ cache[tier][k] # Undefined
        /\ cache' = [cache EXCEPT ![tier][k] = Undefined]
        /\ cev' = NoCev
        /\ UNCHANGED <<imap, store, smtp, framer, wire>>

NextCache ==
    \/ ListFoldersCall
    \/ GetFolderStatusCall
    \/ ListMessagesCall
    \/ GetMessageCall
    \/ GetMessageBodyCall
    \/ UpdateFlagsCall
    \/ CopyMessageCall
    \/ MoveMessageCall
    \/ DeleteMessageCall
    \/ AppendMessageCall
    \/ CreateFolderCall
    \/ DeleteFolderCall
    \/ Expire

SpecCache == Init /\ [][NextCache]_vars

\* Two senders, the id of one a prefix of the other's id, share the cache; a
\* read stores an entry, syncMailbox invalidates a sender's entries.
Abc  == <<"a", "b", "c">>
Abcd == <<"a", "b", "c", "d">>
SenderIds == {Abc, Abcd}
EmailOf(senderId) == IF senderId = Abc THEN <<"x">> ELSE <<"y">>
SenderMemoryKeys(senderId) ==
    {FoldersKey(senderId), StatusKey(senderId, CInbox),
     ListKey(senderId, CInbox, NoOptions), MessageKey(senderId, CInbox, 10),
     SenderKey(EmailOf(senderId))}
SendersCache ==
    [memory |-> EmptyMap(UNION {SenderMemoryKeys(id) : id \in SenderIds}),
     persistent |-> EmptyMap({BodyKey(id, CInbox, 10) : id \in SenderIds})]

InitSenders == InitOther(Invs) /\ cache = SendersCache

\* memory.set(key, ..) or persistent.setJson(key, ..) after a read went upstream.
StoreEntry ==
    \E tier \in {"memory", "persistent"} :
      \E k \in DOMAIN cache[tier] :
        /\ cache[tier][k] = Undefined
        /\ cache' = [cache EXCEPT ![tier][k] = "current"]
        /\ cev' = [NoCev EXCEPT !.call = "set", !.key = k]
        /\ UNCHANGED <<imap, store, smtp, framer, wire>>

SyncMailbox ==
    \E senderId \in SenderIds, o \in {"ok", "fail"} :
      /\ cache' = IF o = "ok" THEN invalidateSender(cache, senderId) ELSE cache
      /\ cev' = [NoCev EXCEPT !.call = "syncMailbox", !.key = senderId, !.ok = (o = "ok")]
      /\ UNCHANGED <<imap, store, smtp, framer, wire>>

NextSenders ==
    \/ StoreEntry
    \/ SyncMailbox

SpecSenders == InitSenders /\ [][NextSenders]_vars

\* One sender with folders whose names are a prefix of one another or have a
\* character that is special in a regular expression or in a LIKE pattern; a
\* read stores an entry, a write invalidates a folder or a message.
Ab        == <<"a", "b">>
DotName   == <<"a", ".", "c">>
UnderName == <<"a", "_", "c">>
FolderNames == {Ab, Abc, DotName, UnderName}
FolderMemoryKeys(senderId, folderName) ==
    {StatusKey(senderId, folderName), MessageKey(senderId, folderName, 10)}
FoldersCache ==
    [memory |-> EmptyMap(UNION {FolderMemoryKeys(CSender, f) : f \in FolderNames}
                           \cup {FoldersKey(CSender)}),
     persistent |-> EmptyMap({BodyKey(CSender, f, 10) : f \in FolderNames})]

InitFolders == InitOther(Invs) /\ cache = FoldersCache

\* A write to a folder went through: createFolder, appendMessage, ..
InvalidateFolder ==
    \E f \in FolderNames :
      /\ cache' = invalidateFolder(cache, CSender, f)
      /\ cev' = [NoCev EXCEPT !.call = "invalidateFolder", !.key = f, !.ok = TRUE]
      /\ UNCHANGED <<imap, store, smtp, framer, wire>>

\* deleteMessage went through.
InvalidateMessage ==
    \E f \in FolderNames :
      /\ cache' = invalidateMessage(cache, CSender, f, 10)
      /\ cev' = [NoCev EXCEPT !.call = "invalidateMessage", !.key = f, !.ok = TRUE]
      /\ UNCHANGED <<imap, store, smtp, framer, wire>>

NextFolders ==
    \/ StoreEntry
    \/ InvalidateFolder
    \/ InvalidateMessage

SpecFolders == InitFolders /\ [][NextFolders]_vars

\* A caller runs an operation under withRetry.
RetryStart ==
    /\ retry.pc = "idle"
    /\ \E n \in 0..MaxRetries, d \in InitialDelays :
         retry' = [NewRetry EXCEPT !.pc = "call", !.maxRetries = n, !.initialDelayMs = d]
    /\ UNCHANGED <<imap, cache, cev, smtp, framer, wire, keys, lru>>

\* await operation() settles.
OperationSettles ==
    /\ retry.pc = "call"
    /\ \E outcome \in {Success} \cup Errors, jitter \in Jitters :
         retry' = withRetry(retry, outcome, jitter)
    /\ UNCHANGED <<imap, cache, cev, smtp, framer, wire, keys, lru>>

\* await sleep(delay) is over: attempt++ and the next turn of the loop.
SleepEnds ==
    /\ retry.pc = "sleep"
    /\ retry' = [retry EXCEPT !.pc = "call", !.attempt = @ + 1]
    /\ UNCHANGED <<imap, cache, cev, smtp, framer, wire, keys, lru>>

NextRetry ==
    \/ RetryStart
    \/ OperationSettles
    \/ SleepEnds

SpecRetry == Init /\ [][NextRetry]_vars

\* The operation settles and the timer of sleep fires.
SpecRetryLive == SpecRetry /\ WF_retry(OperationSettles) /\ WF_retry(SleepEnds)

\* The two api clients validate keys while time passes.
others == <<imap, cache, cev, smtp, framer, wire>>

ValidateImap ==
    \E k \in ApiKeys, o \in KeyOutcomes :
      /\ keys' = validateApiKeyImap(keys, k, o)
      /\ UNCHANGED <<others, lru, retry>>

ValidateSmtp ==
    \E k \in ApiKeys, o \in KeyOutcomes :
      /\ keys' = validateApiKeySmtp(keys, k, o)
      /\ UNCHANGED <<others, lru, retry>>

Tick ==
    /\ keys.now < MaxNow
    /\ keys' = [keys EXCEPT !.now = @ + 1, !.ev = NoKev]
    /\ UNCHANGED <<others, lru, retry>>

NextKeys ==
    \/ ValidateImap
    \/ ValidateSmtp
    \/ Tick

SpecKeys == Init /\ [][NextKeys]_vars

\* A client of the LruCache calls its methods while the TTLs of the entries
\* pass.
MemorySet ==
    \E k \in LruKeys, size \in Sizes :
      /\ lru.tick < MaxUses
      /\ lru' = LruSet(lru, k, size)
      /\ UNCHANGED <<others, keys, retry>>

MemoryGet ==
    \E k \in LruKeys :
      /\ lru.tick < MaxUses
      /\ lru' = LruGet(lru, k)
      /\ UNCHANGED <<others, keys, retry>>

MemoryDelete ==
    \E k \in LruKeys :
      /\ lru' = Called(LruDelete(lru, k), "delete", k, LruHas(lru, k), 0)
      /\ UNCHANGED <<others, keys, retry>>

MemoryHas ==
    \E k \in LruKeys :
      /\ lru' = LruHasKey(lru, k)
      /\ UNCHANGED <<others, keys, retry>>

MemoryDeletePattern ==
    \E matched \in SUBSET LruKeys :
      /\ lru' = deletePattern(lru, matched)
      /\ UNCHANGED <<others, keys, retry>>

MemoryPrune ==
    /\ lru' = prune(lru)
    /\ UNCHANGED <<others, keys, retry>>

MemoryClear ==
    /\ lru' = clear(lru)
    /\ UNCHANGED <<others, keys, retry>>

TtlPasses ==
    \E i \in 1..Len(lru.cache) :
      /\ ~lru.cache[i].expired
      /\ lru' = Called([lru EXCEPT !.cache[i].expired = TRUE], "ttl", lru.cache[i].key,
                      FALSE, 0)
      /\ UNCHANGED <<others, keys, retry>>

NextLru ==
    \/ MemorySet
    \/ MemoryGet
    \/ MemoryDelete
    \/ MemoryHas
    \/ MemoryDeletePattern
    \/ MemoryPrune
    \/ MemoryClear
    \/ TtlPasses

SpecLru == Init /\ [][NextLru]_vars

\* The framer at work on one connection.
\* The client decides what it will send on the connection.
ClientWrites ==
    /\ wire = NoWire
    /\ \E input \in Inputs : wire' = [input |-> input, rest |-> input]
    /\ UNCHANGED <<imap, store, cache, cev, smtp, framer>>

\* A data event with the next n bytes of it.
SocketData ==
    /\ ~framer.destroyed /\ ~framer.errored /\ ~framer.closed
    /\ \E n \in 1..MaxData :
        /\ n <= Len(wire.rest)
        /\ framer' = onSocketData(framer, SubSeq(wire.rest, 1, n))
        /\ wire' = [wire EXCEPT !.rest = subarrayFrom(@, n)]
    /\ UNCHANGED <<imap, store, cache, cev, smtp>>

\* LITERAL_TIMEOUT_MS have passed on one of the timers that are set.
LiteralTimeout ==
    /\ ~framer.destroyed
    /\ \/ /\ framer.pendingLiteral.on /\ framer.pendingLiteral.timeout = "start"
          /\ framer' = [onStartTimeout(framer) EXCEPT !.late = framer.errored \/ framer.closed]
       \/ /\ framer.pendingLiteral.on /\ framer.pendingLiteral.timeout = "reset"
          /\ framer' = [onResetTimeout(framer) EXCEPT !.late = framer.errored \/ framer.closed]
       \/ /\ framer.leaked > 0
          /\ framer' = [onStartTimeout([framer EXCEPT !.leaked = @ - 1])
                          EXCEPT !.late = framer.errored \/ framer.closed]
    /\ UNCHANGED <<imap, store, cache, cev, smtp, wire>>

NextFramer ==
    \/ ClientWrites
    \/ SocketData
    \/ LiteralTimeout

SpecFramer == Init /\ [][NextFramer]_vars

\* The bytes the client has written arrive: the socket emits "data" for them
\* as long as it is open.  Nothing obliges a timer to fire.  Arrives is what
\* SocketData, and no other action, does to the wire.
Arrives ==
    /\ ~framer.destroyed /\ ~framer.errored /\ ~framer.closed
    /\ \E n \in 1..MaxData :
        /\ n <= Len(wire.rest)
        /\ wire' = [wire EXCEPT !.rest = subarrayFrom(@, n)]

SpecFramerLive == SpecFramer /\ WF_wire(Arrives)

\* The connection ends: the socket emits "error" (and "close" after it) or
\* "close", at any moment; the timers that are set go on running.
SocketError ==
    /\ ~framer.errored /\ ~framer.closed
    /\ framer' = onSocketError(framer)
    /\ UNCHANGED <<imap, store, cache, cev, smtp, wire>>

SocketClose ==
    /\ ~framer.closed
    /\ framer' = onSocketClose(framer)
    /\ UNCHANGED <<imap, store, cache, cev, smtp, wire>>

NextClose ==
    \/ ClientWrites
    \/ SocketData
    \/ LiteralTimeout
    \/ SocketError
    \/ SocketClose

SpecClose == Init /\ [][NextClose]_vars

\* ================================================================= claims

\* The states in which a command is not allowed, as the command table has it.
NotAllowed(state, name) ==
    \/ name \in NotAuthNames /\ state # "not_authenticated"
    \/ name \in AuthNames /\ state \notin {"authenticated", "selected"}
    \/ name \in SelectedNames /\ state # "selected"

OneTaggedBad(responses, tag) ==
    /\ Len(responses) = 1
    /\ responses[1].type = "tagged"
    /\ responses[1].status = "BAD"
    /\ responses[1].tag = tag

\* C1: a command dispatched in a state where it is not allowed returns exactly
\* one response, a tagged BAD, issues no upstream call and leaves the session
\* as it was; CAPABILITY, NOOP and LOGOUT are accepted in every state.
C1_StateGating ==
    [][ev'.op = "dispatch" =>
         /\ NotAllowed(session.state, ev'.cmd.name) =>
              /\ ev'.k = "done"
              /\ OneTaggedBad(ret', ev'.cmd.tag)
              /\ ev'.call = ""
              /\ session' = session
         /\ ev'.cmd.name \in AnyStateNames =>
              /\ ev'.k = "done"
              /\ ret'[Len(ret')].status = "OK"]_vars

\* C2: selectedFolder is set if and only if state = selected, in every state
\* of the session, the suspension points of the handlers included.
C2_FolderIffSelected ==
    (session.selectedFolder # 0) <=> (session.state = "selected")

\* C3: the session leaves not_authenticated for authenticated only in a
\* LOGIN or AUTHENTICATE that completes OK after the upstream accepted its
\* password; a LOGIN or AUTHENTICATE answered NO or BAD leaves state, apiKey,
\* workspaceId and selectedSender as they were; and whenever the state is
\* authenticated or selected, apiKey is a key the upstream validated.
C3_AuthOnlyWithValidKey ==
    /\ session.state \in {"authenticated", "selected"} => session.apiKey = GoodKey
    /\ (ev.k = "done" /\ ev.cmd.name \in NotAuthNames /\ ret[Len(ret)].status # "OK")
         => /\ session.state = ev.state0
            /\ ev.state0 = "not_authenticated" => /\ session.apiKey = NoKey
                                                  /\ session.workspaceId = ""
                                                  /\ session.selectedSender = NoSender

\* The invocations of the listener whose handler has started and not completed.
InProgress == {i \in DOMAIN inv : inv[i].pc = "await"}

\* C4: the handlers of one session never overlap: at no time have two framed
\* commands been handed to their handlers without having completed.
C4_HandlersDoNotOverlap == Cardinality(InProgress) <= 1

\* C5: responses are written in the order the commands were dispatched: when
\* a command's responses are written, no command dispatched before it is still
\* waiting for its own.
C5_ResponsesInDispatchOrder ==
    (ev.op \in {"dispatch", "resume"} /\ ev.k # "await" /\ wrote # <<>>)
        => ev.older = {}

IsTaggedFor(r, tag) == r.type = "tagged" /\ r.tag = tag
IsUntaggedLine(r)   == r.type \in {"untagged", "continuation"} /\ r.tag = NoTag

\* C6: when the dispatcher returns a non-empty list, its last response is
\* tagged with the command's tag and every response before it is untagged or
\* a continuation, without a tag.
C6_LastTaggedOthersUntagged ==
    (ev.k = "done" /\ ret # <<>>) =>
        /\ IsTaggedFor(ret[Len(ret)], ev.cmd.tag)
        /\ \A k \in 1..(Len(ret) - 1) : IsUntaggedLine(ret[k])

C6_Witness ==
    /\ ev.k = "done" /\ ev.cmd.name = "STORE" /\ Len(ret) = 1 + MaxUids
    /\ session.idling /\ session.idleTag # ev.cmd.tag

\* The session has logged in with a key the upstream accepts and has not
\* logged out.
LoggedIn == session.apiKey = GoodKey /\ session.state \in {"authenticated", "selected"}

\* C7: a handler that throws is answered on the wire with a tagged BAD that
\* carries the command's tag, so that the command is completed (stated for the
\* sessions that have logged in).
C7_ThrowIsTaggedBad ==
    (LoggedIn /\ ev.op \in {"dispatch", "resume"} /\ ev.k = "throw") =>
        OneTaggedBad(wrote, ev.cmd.tag)

\* The responses invocation i had collected before the step, and after it.
RespBefore(i) == IF ev'.op = "resume" THEN inv[i].resp ELSE <<>>
RespAfter(i)  == IF ev'.k = "done" THEN SubSeq(ret', 1, Len(ret') - 1) ELSE inv'[i].resp

ExampleMove == CXfer("MOVE", TRUE, SetEx, Trash)      \* UID MOVE 10,30 Trash

\* C8: in a MOVE or EXPUNGE handler each untagged EXPUNGE goes to the end of
\* the handler's responses (so they are in the order the UIDs are processed),
\* carries 1 + the index the UID has in messageUids at that moment (after the
\* handler's earlier removals), and the UID is spliced out right after.  With
\* messageUids [10,20,30], UID MOVE 10,30 returns * 1 EXPUNGE, * 2 EXPUNGE and
\* the tagged OK, and leaves [20].
C8_ExpungeUsesCurrentSeq ==
    [][/\ ev'.x.n # 0 =>
            LET before == heap[ev'.x.obj].messageUids
                i == ev'.inv
            IN /\ ev'.cmd.name \in {"MOVE", "EXPUNGE"}
               /\ ev'.x.n = 1 + IndexOf(before, ev'.x.uid)
               /\ ev'.x.after = Splice(before, ev'.x.n - 1)
               /\ heap'[ev'.x.obj].live => heap'[ev'.x.obj].messageUids = ev'.x.after
               /\ RespAfter(i) = Append(RespBefore(i),
                                        Untagged("EXPUNGE", ev'.x.n, ev'.x.uid))
       /\ (/\ ev'.k = "done" /\ [ev'.cmd EXCEPT !.tag = NoTag] = ExampleMove
           /\ ret'[Len(ret')].dst = <<110, 130>>
           /\ ev'.x.after = <<20>>)
            => RespAfter(ev'.inv) = <<Untagged("EXPUNGE", 1, 10), Untagged("EXPUNGE", 2, 30)>>
      ]_vars

C8_Witness ==
    /\ ev.k = "done" /\ [ev.cmd EXCEPT !.tag = NoTag] = ExampleMove
    /\ Len(ret) = 3
    /\ ret[1] = Untagged("EXPUNGE", 1, 10)
    /\ ret[2] = Untagged("EXPUNGE", 2, 30)
    /\ IsTaggedFor(ret[3], ev.cmd.tag) /\ ret[3].status = "OK"
    /\ session.selectedFolder # 0
    /\ heap[session.selectedFolder].messageUids = <<20>>

StrictlyAscending(q) == \A a, b \in 1..Len(q) : a < b => q[a] < q[b]

\* C9: the messageUids of the selected folder is strictly ascending and as long
\* as the message count the client has been told: the EXISTS of the SELECT
\* minus the untagged EXPUNGE responses since.
C9_UidsAscendingAndCounted ==
    session.selectedFolder # 0 =>
        /\ StrictlyAscending(heap[session.selectedFolder].messageUids)
        /\ Len(heap[session.selectedFolder].messageUids)
             = heap[session.selectedFolder].announced

\* C10: a FETCH on the selected folder (sequence set and items given) ends
\* with a tagged OK after one untagged FETCH per message the upstream
\* returned, none twice, each numbered 1 + indexOf(uid) in messageUids, so
\* never 0 (stated for the sessions that have logged in).
C10_FetchOnePerReturnedUid ==
    [][(/\ ev'.k = "done" /\ ev'.cmd.name = "FETCH"
        /\ LoggedIn /\ session.state = "selected" /\ ev'.cmd.set # <<>>)
         => LET lines == SubSeq(ret', 1, Len(ret') - 1)
                uids == heap[session.selectedFolder].messageUids
            IN /\ ret'[Len(ret')].status = "OK"
               /\ session.selectedFolder # 0
               /\ \A k \in 1..Len(lines) :
                    /\ lines[k].text = "FETCH"
                    /\ lines[k].n >= 1
                    /\ lines[k].n = 1 + IndexOf(uids, lines[k].uid)
               /\ \A j, k \in 1..Len(lines) : lines[j].uid = lines[k].uid => j = k
               /\ (ev'.op = "resume" /\ inv[ev'.inv].at = "listMessages")
                    => Len(lines) = Len(inv[ev'.inv].res.msgs)
      ]_vars

\* C13: an IDLE accepted in selected state writes the continuation, sets
\* idling and its own tag, and starts while no other IDLE is in progress (whose
\* tag would be lost); the IDLE in progress is ended by DONE with the tagged
\* OK IDLE terminated or by the timer with OK IDLE terminated (timeout), under
\* the tag of that IDLE; afterwards idling is false and no idle timer is
\* pending; DONE or a timer outside an IDLE writes nothing.
C13_IdleEndsOnceWithOwnTag ==
    [][/\ (ev'.op = "dispatch" /\ ev'.cmd.name = "IDLE" /\ session.state = "selected") =>
            /\ wrote' = <<Continuation("idling")>>
            /\ session'.idling /\ session'.idleTag = ev'.cmd.tag
            /\ ~session.idling
       /\ ev'.op \in {"done", "timer"} =>
            /\ wrote' = IF ~session.idling THEN <<>>
                        ELSE <<Tagged(session.idleTag, "OK", "",
                                      IF ev'.op = "done" THEN "IDLE terminated"
                                      ELSE "IDLE terminated (timeout)")>>
            /\ ~session'.idling
            /\ session.idling => session'.timers = 0
      ]_vars

\* C14: while the session is idling a line other than DONE is ignored: no
\* handler runs, nothing goes upstream, the session is left as it was and
\* nothing is written.
C14_IdleIgnoresOtherLines ==
    [][(session.idling /\ ev'.op \in {"dispatch", "parse"}) =>
         /\ ev'.k = "" /\ ev'.call = ""
         /\ session' = session
         /\ wrote' = <<>>
      ]_vars

\* C11: a read that is answered from the cache returns the upstream's current
\* answer: no entry stored before a successful write that changed the answer
\* (a STORE, COPY, MOVE, EXPUNGE, CLOSE, APPEND, CREATE or DELETE of any
\* session) is returned afterwards.
C11_NoStaleReadAfterWrite ==
    cev.hit => cev.val = "current"

\* C18: no password without the prefix pm_live_ or pm_test_ is sent upstream:
\* whenever LOGIN, AUTHENTICATE or SMTP AUTH calls validateApiKey, the value it
\* passes has one of the two prefixes.
C18_FormatBeforeUpstream ==
    /\ ev.call = "validateApiKey" => ev.key[1] \in API_KEY_PREFIXES
    /\ smtp.call = "validateApiKey" => smtp.pass[1] \in API_KEY_PREFIXES

C18_Witness ==
    /\ smtp.pass = RawPass /\ smtp.reply = "Invalid API key format" /\ smtp.call = ""
    /\ ev.op = "dispatch" /\ ev.cmd.name = "AUTHENTICATE" /\ ev.cmd.pass = RawPass
    /\ ev.k = "done" /\ ev.call = ""
    /\ ret[1].status = "NO" /\ ret[1].code = "AUTHENTICATIONFAILED"

\* The user name of a LOGIN or AUTHENTICATE is an email address.
EmailUser(c) == c.user \notin {"", "api", "*"}

\* C19: a LOGIN or AUTHENTICATE with an email user name and a password the
\* upstream accepts either completes OK with the session bound to the sender
\* of that email, or is answered NO [AUTHENTICATIONFAILED] and leaves the
\* session not_authenticated; for an email no sender has it is the latter.
C19_EmailBindsOrFails ==
    (/\ ev.k = "done" /\ ev.cmd.name \in NotAuthNames /\ ev.state0 = "not_authenticated"
     /\ EmailUser(ev.cmd) /\ ev.cmd.pass = GoodKey
     /\ ev.cmd.name = "AUTHENTICATE" => ev.cmd.mech = "PLAIN")
      => \/ /\ ret[Len(ret)].status = "OK"
            /\ ev.cmd.user = TheEmail
            /\ session.state = "authenticated"
            /\ session.selectedSender = TheSender
         \/ /\ ret[Len(ret)].status = "NO"
            /\ ret[Len(ret)].code = "AUTHENTICATIONFAILED"
            /\ session.state = "not_authenticated"

\* C20: a CLOSE in selected state completes with the tagged OK alone (no
\* untagged EXPUNGE), leaves the session authenticated without a selected
\* folder, and leaves no message flagged \Deleted in the folder upstream.
C20_CloseDiscardsDeleted ==
    (ev.k = "done" /\ ev.cmd.name = "CLOSE" /\ ev.state0 = "selected") =>
        /\ Len(ret) = 1 /\ IsTaggedFor(ret[1], ev.cmd.tag) /\ ret[1].status = "OK"
        /\ session.state = "authenticated"
        /\ session.selectedFolder = 0
        /\ up.deleted \cap up.msgs = {}

\* The responses of SELECT and EXAMINE before the optional UNSEEN.
SelectPrefix == <<"EXISTS", "RECENT", "FLAGS", "OK PERMANENTFLAGS", "OK UIDVALIDITY",
                  "OK UIDNEXT">>

\* C12: a SELECT or EXAMINE that completes OK returns EXISTS, RECENT, FLAGS,
\* OK [PERMANENTFLAGS], OK [UIDVALIDITY], OK [UIDNEXT] untagged in this order,
\* then OK [UNSEEN seq] exactly if the folder holds a message without \Seen,
\* seq being the sequence number of the first such message, then the tagged OK.
C12_SelectResponses ==
    (/\ ev.k = "done" /\ ev.cmd.name \in {"SELECT", "EXAMINE"}
     /\ ret # <<>> /\ ret[Len(ret)].status = "OK")
      => LET unseen == up.msgs \ SeenUids
             first  == CHOOSE x \in unseen : \A y \in unseen : x <= y
             texts  == [i \in 1..(Len(ret) - 1) |-> ret[i].text]
         IN /\ IsTaggedFor(ret[Len(ret)], ev.cmd.tag)
            /\ \A i \in 1..(Len(ret) - 1) : ret[i].type = "untagged"
            /\ IF unseen = {} THEN texts = SelectPrefix
               ELSE /\ texts = SelectPrefix \o <<"OK UNSEEN">>
                    /\ ret[7].n = Cardinality({y \in up.msgs : y <= first})

\* The bytes delivered to the listener so far, and what the socket was written.
Delivered == SubSeq(wire.input, 1, Len(wire.input) - Len(wire.rest))
Wrote(log, text) == \E i \in 1..Len(log) : log[i].op = "write" /\ log[i].text = text
AnnouncesTooLarge(e) ==
    e.op = "line" /\ literalMatch(e.line).ok /\ literalMatch(e.line).size > MAX_LITERAL_SIZE
AnnouncesLiteral(e) ==
    e.op = "line" /\ literalMatch(e.line).ok /\ literalMatch(e.line).size <= MAX_LITERAL_SIZE

\* The same bytes delivered one per data event.
RECURSIVE ByteWise(_, _)
ByteWise(f, q) ==
    IF q = <<>> THEN f ELSE ByteWise(onSocketData(f, <<Head(q)>>), Tail(q))

\* socket.end() was not called before the i-th entry of the log.
Open(log, i) == \A k \in 1..(i - 1) : log[k].op # "end"

IsVisible(e) == e.op # "line"
Visible(log) == SelectSeq(log, IsVisible)

\* A command line of q, outside any literal, has more than MAX_LINE_SIZE bytes
\* before its CRLF.
RECURSIVE LongLine(_)
LongLine(q) ==
    LET lineEnd == indexOfCRLF(q)
        line == subarray(q, 0, lineEnd)
        rest == subarrayFrom(q, lineEnd + 2)
        m == literalMatch(line)
    IN IF lineEnd = -1 THEN Len(q) > MAX_LINE_SIZE
       ELSE \/ Len(line) > MAX_LINE_SIZE
            \/ IF m.ok /\ m.size <= MAX_LITERAL_SIZE
               THEN LongLine(StripCRLF(subarrayFrom(rest, m.size)))
               ELSE LongLine(rest)

\* C15: for input whose lines are within the line limit and whose literals
\* are within the literal limit, the collected length never exceeds N, every
\* command handed over with a payload has the N bytes its line announced, and
\* once every byte is delivered the socket was written, and handleCommand was
\* handed, the same as when the bytes arrive one per data event.
C15_LiteralExactAndSplitIndependent ==
    LET ref == ByteWise(NewFramer, wire.input).log
        log == framer.log
    IN (/\ wire # NoWire
        /\ ~LongLine(wire.input)
        /\ \A i \in 1..Len(ref) : ~AnnouncesTooLarge(ref[i])
        /\ \E i \in 1..Len(ref) : AnnouncesLiteral(ref[i])
        /\ ~Wrote(log, TimedOut))
       => /\ framer.pendingLiteral.on =>
                Len(framer.pendingLiteral.collected) <= framer.pendingLiteral.size
          /\ \A j \in 1..Len(log) :
                (log[j].op = "dispatch" /\ log[j].literalData # NoData) =>
                    \E i \in 1..(j - 1) :
                        /\ AnnouncesLiteral(log[i])
                        /\ literalMatch(log[i].line).command = log[j].line
                        /\ literalMatch(log[i].line).size = Len(log[j].literalData)
                        /\ \A k \in (i + 1)..(j - 1) : log[k].op = "write"
          /\ wire.rest = <<>> => Visible(log) = Visible(ref)

\* Every line taken on an open connection that announces a literal of more
\* than MAX_LITERAL_SIZE bytes is followed by `* BAD Literal too large` and
\* then by the next line (or by what a later event writes): no continuation,
\* no handleCommand, no socket.end().
TooLargeAnswered(f) ==
    /\ f.pendingLiteral.on => f.pendingLiteral.size <= MAX_LITERAL_SIZE
    /\ \A i \in 1..Len(f.log) :
          (AnnouncesTooLarge(f.log[i]) /\ Open(f.log, i)) =>
              /\ i < Len(f.log)
              /\ f.log[i + 1].op = "write"
              /\ f.log[i + 1].text = TooLarge
              /\ i + 1 < Len(f.log) =>
                    \/ f.log[i + 2].op = "line"
                    \/ /\ f.log[i + 2].op = "write"
                       /\ f.log[i + 2].text \in {TooLong, TimedOut}

\* C16: when the bytes delivered hold a command line that announces a literal
\* of more than MAX_LITERAL_SIZE bytes (no line of them over the line limit, no
\* literal timer fired), the socket was written `* BAD Literal too large`, no
\* continuation, collection or handleCommand was started for the line, and
\* socket.end() was not called.
C16_LiteralTooLarge ==
    LET ref == ByteWise(NewFramer, Delivered).log
    IN (/\ ~LongLine(Delivered)
        /\ ~Wrote(framer.log, TimedOut)
        /\ \E i \in 1..Len(ref) : AnnouncesTooLarge(ref[i]))
       => /\ Wrote(framer.log, TooLarge)
          /\ ~framer.ended
          /\ TooLargeAnswered(framer)

\* C17: `* BAD Command line too long` is written, and the socket ended, exactly
\* when a command line of the bytes delivered has more than MAX_LINE_SIZE
\* bytes; never when every line is within the limit.
C17_TooLongExactly ==
    /\ Wrote(framer.log, TooLong) => (framer.ended /\ LongLine(Delivered))
    /\ (LongLine(Delivered) /\ ~Wrote(framer.log, TimedOut)) => Wrote(framer.log, TooLong)

\* C22: every UIDVALIDITY the gateway reports is the upstream's uidValidity of
\* the folder: in OK [UIDVALIDITY n] of SELECT and EXAMINE, in APPENDUID and in
\* COPYUID.
C22_UidValidityIsUpstreams ==
    ev.k = "done" =>
        \A i \in 1..Len(ret) :
            (\/ ret[i].text = "OK UIDVALIDITY"
             \/ ret[i].type = "tagged" /\ ret[i].code \in {"APPENDUID", "COPYUID"})
                => ret[i].n = UpUidValidity

\* The COPY or MOVE that just completed answered OK.
TransferDone ==
    /\ ev.k = "done" /\ ev.cmd.name \in {"COPY", "MOVE"}
    /\ ret # <<>> /\ ret[Len(ret)].status = "OK"

C24_AppendTryCreate ==
    (/\ ev.k = "done" /\ ev.cmd.name = "APPEND" /\ ev.cmd.literal
     /\ ev.state0 \in {"authenticated", "selected"}
     /\ normalizeFolderName(ev.cmd.mbox) \notin UpFolders /\ ev.cmd.mbox # NoName)
      => /\ Len(ret) = 1
         /\ ret[1].status = "NO"
         /\ ret[1].code = "TRYCREATE"

\* The BODY items of a FETCH item list.
BodyItems(itemsStr) == SelectSeq(parseFetchItems(itemsStr), LAMBDA i : i.type = "BODY")

\* C25: a getMessageBody request of FETCH passes peek = true only if every
\* requested BODY item is BODY.PEEK; with one BODY item that is not, it passes
\* peek = false.
C25_PeekOnlyIfAllPeek ==
    (ev.cmd.name = "FETCH" /\ ev.k = "await" /\ ev.call = "getMessageBody") =>
        (ev.peek => \A i \in 1..Len(BodyItems(ev.cmd.items)) :
                        BodyItems(ev.cmd.items)[i].peek)

\* A UID FETCH of the appended message's body on the selected Inbox completed.
FetchedAppended ==
    /\ ev.k = "done" /\ ev.cmd = [ev.cmd EXCEPT !.name = "FETCH", !.useUid = TRUE,
                                                 !.set = SetNew, !.items = "BODY.PEEK[]"]
    /\ ev.state0 = "selected" /\ NewUid \in up.msgs

\* C21: after an APPEND of a message to a folder succeeded with APPENDUID u, a
\* UID FETCH u (BODY.PEEK[]) on that folder returns one untagged FETCH whose
\* literal is the message appended, the upstream echoing what it stored.
C21_AppendFetchRoundTrip ==
    FetchedAppended =>
        /\ Len(ret) = 2
        /\ ret[1].type = "untagged" /\ ret[1].text = "FETCH" /\ ret[1].uid = NewUid
        /\ ret[1].literal = up.stored

\* The sender an entry of the shared cache belongs to.
OwnerOf(k) ==
    CHOOSE id \in SenderIds :
        k \in SenderMemoryKeys(id) \cup {BodyKey(id, CInbox, 10)}

\* C26: invalidating the entries of sender abc deletes no entry that belongs
\* to sender abcd (and the other way round): its sender:, folders:, status:,
\* messages:, message: and body: entries stay.
C26_InvalidateSenderAnchored ==
    [][cev'.call = "syncMailbox" =>
          \A tier \in {"memory", "persistent"} :
            \A k \in DOMAIN cache[tier] :
              (cache[tier][k] # Undefined /\ OwnerOf(k) # cev'.key)
                  => cache'[tier][k] # Undefined]_vars

\* C27: a validateApiKey that follows a failed one for the same key (of the
\* same client) asks the upstream again; one that does not ask the upstream
\* returns a success stored earlier whose TTL has not passed.
C27_FailuresNotCached ==
    keys.ev.op = "validate" =>
        /\ keys.ev.prev = "failed" => keys.ev.upstream
        /\ ~keys.ev.upstream => keys.ev.result /\ keys.ev.prev = "ok" /\ keys.ev.fresh

\* C28: after every LruCache.set the cache has at most maxEntries entries and
\* at most maxMemory accounted memory.
C28_LimitsAfterSet ==
    lru.op = "set" =>
        /\ Len(lru.cache) <= maxEntries
        /\ lru.currentMemory <= maxMemory

\* A command of an authenticated session completed.
DoneAuthenticated(name) ==
    ev.k = "done" /\ ev.cmd.name = name /\ ev.state0 \in {"authenticated", "selected"}

\* C29: in a session logged in as `api`, at every point (also after a SELECT
\* or EXAMINE and after CLOSE) LIST * names every folder of every sender as
\* <email>/<folder>, and a SELECT or EXAMINE of <email>/<folder> opens the
\* folder of the sender with that email.
C29_AnySenderStaysAnySender ==
    /\ DoneAuthenticated("LIST") =>
          /\ Len(ret) = Len(UpFolderSeq) + 1
          /\ \A i \in 1..Len(UpFolderSeq) : ret[i].mailbox = <<TheEmail>> \o UpFolderSeq[i]
    /\ (\/ DoneAuthenticated("SELECT")
        \/ DoneAuthenticated("EXAMINE")) /\ Len(ev.cmd.mbox) = 2
          => /\ ret[Len(ret)].status = "OK"
             /\ session.selectedFolder # 0
             /\ heap[session.selectedFolder].name = Tail(ev.cmd.mbox)

\* C30: once the socket of a connection has emitted "close" or "error", the
\* session is out of the session table, no timer set for the connection is
\* still pending, and none has fired since.
C30_CloseReleasesTimers ==
    (framer.closed \/ framer.errored) =>
        /\ ~framer.inTable
        /\ ~TimerPending(framer)
        /\ ~framer.late

\* C36: in every COPYUID of COPY and MOVE the source set and the target set
\* have the same number of UIDs, the i-th target UID is the copy of the i-th
\* source UID, and a UID whose copy or move failed is in neither set.
C36_CopyUidSetsCorrespond ==
    TransferDone /\ ret[Len(ret)].code = "COPYUID" =>
        /\ Len(ret[Len(ret)].src) = Len(ret[Len(ret)].dst)
        /\ \A i \in 1..Len(ret[Len(ret)].dst) :
              i <= Len(ret[Len(ret)].src)
                 /\ ret[Len(ret)].dst[i] = ret[Len(ret)].src[i] + 100

\* C31: a message that EXPUNGE or CLOSE deletes upstream carries \Deleted
\* upstream when it is deleted; one whose \Deleted flag a STORE has removed is
\* not deleted.
C31_DeletesOnlyDeleted ==
    [][ev'.cmd.name \in {"EXPUNGE", "CLOSE"} =>
          \A m \in up.msgs \ up'.msgs : m \in up.deleted]_vars

\* C33: `* BAD Literal data timeout` is written only by the timer of a literal
\* that is pending and incomplete; the timer of a literal that was received
\* completely, with its line or in later data events, never fires.
C33_TimeoutOnlyWhileIncomplete ==
    [][/\ framer'.leaked >= framer.leaked
       /\ (Wrote(framer'.log, TimedOut) /\ ~Wrote(framer.log, TimedOut)) =>
             (/\ framer.pendingLiteral.on
              /\ Len(framer.pendingLiteral.collected) < framer.pendingLiteral.size)
      ]_vars

\* C32: once every byte the client wrote has arrived, every complete line of
\* them is taken from the buffer and handled, without more input, unless the
\* connection was ended: no CRLF-terminated line stays in the buffer.
C32_LinesEventuallyDispatched ==
    (wire # NoWire /\ wire.rest = <<>>) ~>
        (framer.ended \/ framer.destroyed \/ indexOfCRLF(framer.buffer) = -1)

\* C34: once the session is in state logout no command is dispatched: a line
\* that follows LOGOUT runs no handler, reaches no upstream, leaves the session
\* as it was and is answered nothing.
C34_LogoutIsTerminal ==
    [][(session.state = "logout" /\ ev'.op \in {"dispatch", "resume", "parse"}) =>
         /\ ev'.k = "" /\ ev'.call = ""
         /\ session' = session
         /\ wrote' = <<>>
      ]_vars

\* C35: while the selected folder was opened with EXAMINE (readOnly), STORE,
\* EXPUNGE, MOVE and CLOSE call no updateFlags, deleteMessage or moveMessage
\* and leave the messages and flags of the upstream as they are.
C35_ReadOnlyFolderUnchanged ==
    [][(/\ session.selectedFolder # 0
        /\ heap[session.selectedFolder].readOnly
        /\ ev'.op \in {"dispatch", "resume"}
        /\ ev'.cmd.name \in {"STORE", "EXPUNGE", "MOVE", "CLOSE"})
       => /\ ev'.call \notin {"updateFlags", "deleteMessage", "moveMessage"}
          /\ up'.msgs = up.msgs
          /\ up'.deleted = up.deleted
      ]_vars

\* The entries of the Map with a key other than key.
Others(c, key) == {c.cache[i] : i \in {j \in 1..Len(c.cache) : c.cache[j].key # key}}

\* C37: a set evicts in the order of the last successful get or set: an entry
\* it removes was used no later than any entry it keeps; a get that hits
\* returns the value and makes the entry the most recently used one; a get of
\* an expired entry returns nothing and removes the entry.
C37_EvictsLeastRecentlyUsed ==
    [][/\ lru'.op = "set" =>
             \A e \in Others(lru, lru'.key) :
                 ~LruHas(lru', e.key) =>
                     \A f \in Others(lru, lru'.key) : LruHas(lru', f.key) => e.at < f.at
       /\ (lru'.op = "get" /\ LruHas(lru, lru'.key)) =>
             IF LruEntry(lru, lru'.key).expired
             THEN ~lru'.got /\ ~LruHas(lru', lru'.key)
             ELSE /\ lru'.got
                  /\ lru'.cache[Len(lru'.cache)].key = lru'.key
                  /\ \A f \in Others(lru', lru'.key) : f.at < LruEntry(lru', lru'.key).at
      ]_vars

\* The set of k3 evicted the entry stored second and kept k1, stored first and
\* used again after it.
C37_Witness ==
    /\ lru.op = "set" /\ lru.key = "k3" /\ lru.tick = 4
    /\ Len(lru.cache) = 2
    /\ lru.cache[1].key = "k1" /\ lru.cache[1].at = 3
    /\ lru.cache[2].key = "k3"

RECURSIVE SumSizes(_)
SumSizes(q) == IF q = <<>> THEN 0 ELSE Head(q).size + SumSizes(Tail(q))

\* C40: after every call currentMemory is the sum of the sizes of the stored
\* entries, 0 for the empty cache and never negative, and stats() reports the
\* number of entries and that sum.
C40_MemoryIsSumOfSizes ==
    /\ lru.currentMemory = SumSizes(lru.cache)
    /\ lru.currentMemory >= 0
    /\ lru.cache = <<>> => lru.currentMemory = 0
    /\ stats(lru).entries = Len(lru.cache)
    /\ stats(lru).memory = SumSizes(lru.cache)

\* A deletePattern removed one of two entries of different sizes.
C40_Witness ==
    /\ lru.op = "deletePattern" /\ lru.n = 1
    /\ Len(lru.cache) = 1 /\ lru.cache[1].size = 2 /\ lru.currentMemory = 2

\* The entries of the shared cache that belong to folder f of the sender.
FolderEntries(f) == FolderMemoryKeys(CSender, f) \cup {BodyKey(CSender, f, 10)}

\* C39: invalidateFolder and invalidateMessage for folder f delete no status,
\* messages, message or body entry of another folder, whatever the names are:
\* a prefix of one another, with a `.`, with a `_`.
C39_InvalidateFolderExact ==
    [][cev'.call \in {"invalidateFolder", "invalidateMessage"} =>
          \A g \in FolderNames \ {cev'.key} :
            \A tier \in {"memory", "persistent"} :
              \A k \in FolderEntries(g) \cap DOMAIN cache[tier] :
                cache[tier][k] # Undefined => cache'[tier][k] # Undefined]_vars

\* What withRetry has done so far is what it may do.
RetryWithinLimits ==
    /\ Len(retry.outcomes) <= retry.maxRetries + 1
    /\ retry.delay <= maxDelayMs
    /\ \A i \in 1..(Len(retry.outcomes) - 1) :
          ~retry.outcomes[i].ok /\ isRetryableError(retry.outcomes[i])
    /\ retry.pc = "returned" =>
          /\ retry.outcomes[Len(retry.outcomes)].ok
          /\ retry.result = Len(retry.outcomes)
    /\ retry.pc = "thrown" =>
          /\ retry.thrown = retry.outcomes[Len(retry.outcomes)]
          /\ ~retry.thrown.ok
          /\ \/ ~isRetryableError(retry.thrown)
             \/ Len(retry.outcomes) = retry.maxRetries + 1
    /\ (retry.outcomes # <<>> /\ retry.pc \in {"call", "sleep"}) =>
          /\ ~retry.outcomes[Len(retry.outcomes)].ok
          /\ isRetryableError(retry.outcomes[Len(retry.outcomes)])
          /\ Len(retry.outcomes) <= retry.maxRetries

\* C38: withRetry invokes the operation at most maxRetries + 1 times, returns
\* the value of the first invocation that succeeds, throws the error of an
\* invocation at once when it is not retryable and after the last attempt
\* when it is, waits at most maxDelayMs between two attempts, and ends: a call
\* that was started returns or throws.
C38_WithRetryTerminates ==
    /\ []RetryWithinLimits
    /\ (retry.pc = "call") ~> (retry.pc \in {"returned", "thrown"})

\* Every attempt of a call with two retries failed with a retryable error, the
\* last wait was cut to maxDelayMs, and the last error was thrown.
C38_Witness ==
    /\ retry.pc = "thrown" /\ retry.maxRetries = 2 /\ Len(retry.outcomes) = 3
    /\ isRetryableError(retry.thrown)
    /\ retry.delay = maxDelayMs

====
